---- MODULE Spec2Model ----
(***************************************************************************)
(* Cryologger Glacier Velocity Tracker: the alarm scheduler (01_rtc.ino),  *)
(* the main loop, the clock synchronisation and the buffered log writer    *)
(* (v2.4.0 sketch), as one state machine.                                  *)
(*                                                                         *)
(* Time is the RTC calendar on a grid of quarter hours.  The clock only    *)
(* advances while the program waits: in deep sleep, at the top of the      *)
(* logging loop and in the sync poll loop.  The alarm interrupt is taken   *)
(* before the main program executes its next step.                         *)
(***************************************************************************)
EXTENDS Integers, Sequences, FiniteSets, TLC

VARIABLES
  cfg,                  \* user defined logging/sleeping variables (fixed at build time)
  rtc,                  \* APM3_RTC: calendar fields, alarm fields, alarm mode
  gnssTime,             \* the receiver's (true) calendar time
  intPending,           \* RTC alarm interrupt raised, am_rtc_isr not yet run
  alarmFlag,
  operationMode,
  normalOperationMode,
  alarmModeInitial,
  alarmModeLogging,
  alarmModeSleep,
  dateCurrent,
  dateNew,
  firstTimeFlag,
  rtcSyncFlag,
  online,               \* struct_online
  logFileName,
  fileOpen,             \* logFile is open
  avail,                \* gnss.fileBufferAvailable()
  maxFileBufferAvail,   \* gnss.getMaxFileBufferAvail(): the highest level of the buffer
                        \* since gnss.clearMaxFileBufferAvail()
  remainingBytes,
  bytesWritten,         \* unsigned long: its 32 bits written as a two's-complement
                        \* integer, so the values from 2^31 up appear as negative numbers
  syncFailCounter,
  writeFailCounter,
  closeFailCounter,
  flushDue,             \* millis() - previousMillis > 5000
  syncElapsed,          \* minutes spent in the poll loop of syncRtc
  rtcDrift,
  pc,                   \* position of the main program
  inSetup,              \* setup() has not returned yet
  dayCount,             \* midnights of true time since power-up
  boot,                 \* history: the clock when setInitialAlarm ran, and whether
                        \* syncRtc had set it from the receiver
  rxPending,            \* bytes the receiver holds for the next gnss.checkUblox()
  fixAvailable,         \* the receiver has a position fix during this syncRtc
  syncStartDate,        \* history: the clock's date when the latest call of syncRtc began
  pvt,                  \* the message read by gnss.getPVT() in the current pass of the
                        \* poll loop: fixType, dateValidFlag, timeValidFlag
  faults,               \* storage calls that have failed since power-up
  sessCommitted,        \* history: bytes of the block writes that succeeded plus the bytes drained
  sessFailedWrites,     \* history: write calls that failed this session
  hwCalls,              \* history: the calls to the clock's alarm hardware made by the
                        \* latest alarm-setting function, in program order
  lastCalls             \* history: the calls to the watchdog, the receiver and the log
                        \* file made by the latest step of the program and the warnings
                        \* it printed, in program order

envv == <<gnssTime, dayCount>>
irq == <<intPending, alarmFlag>>
modes == <<operationMode, normalOperationMode>>
amodes == <<alarmModeInitial, alarmModeLogging, alarmModeSleep>>
dates == <<dateCurrent, dateNew, firstTimeFlag>>
syncv == <<rtcSyncFlag, syncElapsed, rtcDrift, fixAvailable, pvt, syncStartDate>>
counters == <<bytesWritten, syncFailCounter, writeFailCounter, closeFailCounter>>
hist == <<sessCommitted, sessFailedWrites>>
bufv == <<avail, maxFileBufferAvail, remainingBytes, rxPending>>
store == <<fileOpen, bufv, counters, flushDue, faults, hist>>
vars == <<cfg, rtc, envv, irq, modes, amodes, dates, syncv, online, logFileName, store,
          pc, inSetup, boot, hwCalls, lastCalls>>

----------------------------------------------------------------------------
(* Program constants *)

DAILY == 1
ROLLING == 2
CONTINUOUS == 3
sdWriteSize == 512
fileBufferSize == 16384
gnssTimeout == 300

(* Bounds of the model *)

MaxDays == 2        \* midnights a run may cross
RxPerTick == 1100   \* bytes the receiver delivers per step of the clock
MaxFaults == 1      \* failing storage calls in a run

----------------------------------------------------------------------------
(* Configurations: the build-time settings a device is deployed with *)

Settings(mode, sh, sm, eh, em, ah, am, zh, zm, summer, sd, smo, ed, emo) ==
  [operationMode |-> mode,
   alarmStartHour |-> sh, alarmStartMinute |-> sm,
   alarmStopHour |-> eh, alarmStopMinute |-> em,
   alarmAwakeHours |-> ah, alarmAwakeMinutes |-> am,
   alarmSleepHours |-> zh, alarmSleepMinutes |-> zm,
   summerMode |-> summer,
   alarmSummerStartDay |-> sd, alarmSummerStartMonth |-> smo,
   alarmSummerEndDay |-> ed, alarmSummerEndMonth |-> emo]

DailyPlain == Settings(DAILY, 13, 0, 14, 0, 1, 0, 1, 0, FALSE, 5, 2, 2, 6)
DailySummer == Settings(DAILY, 13, 0, 14, 0, 1, 0, 1, 0, TRUE, 5, 2, 2, 6)
DailyNight == Settings(DAILY, 22, 0, 2, 0, 1, 0, 1, 0, TRUE, 5, 2, 2, 6)
DailyNightHalf == Settings(DAILY, 22, 0, 2, 30, 1, 0, 1, 0, TRUE, 5, 2, 2, 6)
RollingPlain == Settings(ROLLING, 13, 0, 14, 0, 1, 30, 0, 15, FALSE, 5, 2, 2, 6)
RollingSummer == Settings(ROLLING, 13, 0, 14, 0, 0, 30, 1, 0, TRUE, 5, 2, 2, 6)
ContinuousPlain == Settings(CONTINUOUS, 13, 0, 14, 0, 1, 0, 1, 0, FALSE, 5, 2, 2, 6)

alarmStartHour == cfg.alarmStartHour
alarmStartMinute == cfg.alarmStartMinute
alarmStopHour == cfg.alarmStopHour
alarmStopMinute == cfg.alarmStopMinute
alarmAwakeHours == cfg.alarmAwakeHours
alarmAwakeMinutes == cfg.alarmAwakeMinutes
alarmSleepHours == cfg.alarmSleepHours
alarmSleepMinutes == cfg.alarmSleepMinutes
summerMode == cfg.summerMode
alarmSummerStartDay == cfg.alarmSummerStartDay
alarmSummerStartMonth == cfg.alarmSummerStartMonth
alarmSummerEndDay == cfg.alarmSummerEndDay
alarmSummerEndMonth == cfg.alarmSummerEndMonth

----------------------------------------------------------------------------
(* The clock hardware *)

Minutes == {0, 15, 30, 45}

Time(y, mo, d, h, mi) ==
  [year |-> y, month |-> mo, day |-> d, hour |-> h, minute |-> mi, second |-> 0]

\* Deployments: the settings and the receiver's time at power-up
Scenarios ==
  { <<DailyPlain, Time(25, 1, 1, 9, 0)>>,
    <<DailyPlain, Time(25, 1, 1, 15, 30)>>,
    <<DailySummer, Time(25, 1, 1, 9, 0)>>,
    <<DailySummer, Time(25, 2, 3, 9, 0)>>,
    <<DailySummer, Time(25, 3, 1, 15, 30)>>,
    <<DailySummer, Time(25, 6, 1, 9, 0)>>,
    <<DailyNight, Time(25, 2, 3, 15, 30)>>,
    <<DailyNightHalf, Time(25, 2, 4, 9, 0)>>,
    <<RollingPlain, Time(25, 1, 31, 21, 15)>>,
    <<RollingSummer, Time(25, 2, 4, 9, 0)>>,
    <<ContinuousPlain, Time(25, 1, 1, 9, 0)>> }

\* Returns the last day of a given month (handles leap years)
getLastDayOfMonth(month, year) ==
  IF month = 2
    THEN (IF year % 4 = 0 /\ (year % 100 # 0 \/ year % 400 = 0) THEN 29 ELSE 28)
    ELSE (IF month \in {4, 6, 9, 11} THEN 30 ELSE 31)

\* Length of a month in the calendar of the clock hardware (years 2000..2099)
DaysInMonth(month, year) ==
  IF month = 2 THEN (IF year % 4 = 0 THEN 29 ELSE 28)
  ELSE IF month \in {4, 6, 9, 11} THEN 30 ELSE 31

\* The next grid point of a calendar time
NextTime(t) ==
  IF \E m \in Minutes : m > t.minute
    THEN [t EXCEPT !.minute = CHOOSE m \in Minutes :
                                m > t.minute /\ \A k \in Minutes : k > t.minute => m <= k]
  ELSE IF t.hour < 23 THEN [t EXCEPT !.minute = 0, !.hour = t.hour + 1]
  ELSE IF t.day < DaysInMonth(t.month, t.year)
    THEN [t EXCEPT !.minute = 0, !.hour = 0, !.day = t.day + 1]
  ELSE IF t.month < 12
    THEN [t EXCEPT !.minute = 0, !.hour = 0, !.day = 1, !.month = t.month + 1]
  ELSE [t EXCEPT !.minute = 0, !.hour = 0, !.day = 1, !.month = 1,
                 !.year = (t.year + 1) % 100]

\* The next second of a calendar time
NextSecond(t) ==
  IF t.second < 59 THEN [t EXCEPT !.second = t.second + 1]
  ELSE IF t.minute < 59 THEN [t EXCEPT !.second = 0, !.minute = t.minute + 1]
  ELSE IF t.hour < 23 THEN [t EXCEPT !.second = 0, !.minute = 0, !.hour = t.hour + 1]
  ELSE IF t.day < DaysInMonth(t.month, t.year)
    THEN [t EXCEPT !.second = 0, !.minute = 0, !.hour = 0, !.day = t.day + 1]
  ELSE IF t.month < 12
    THEN [t EXCEPT !.second = 0, !.minute = 0, !.hour = 0, !.day = 1,
                   !.month = t.month + 1]
  ELSE [t EXCEPT !.second = 0, !.minute = 0, !.hour = 0, !.day = 1, !.month = 1,
                 !.year = (t.year + 1) % 100]

\* rtc.getTime(): the calendar fields of the clock
Now == [Time(rtc.year, rtc.month, rtc.dayOfMonth, rtc.hour, rtc.minute)
         EXCEPT !.second = rtc.seconds]

\* rtc.setTime / rtc.setEpoch: load the calendar fields
SetClockAndAlarm(r, t) ==
  [r EXCEPT !.year = t.year, !.month = t.month, !.dayOfMonth = t.day,
            !.hour = t.hour, !.minute = t.minute, !.seconds = t.second,
            !.alarmHour = t.hour, !.alarmMinute = t.minute]
SetClock(r, t) ==
  [r EXCEPT !.year = t.year, !.month = t.month, !.dayOfMonth = t.day,
            !.hour = t.hour, !.minute = t.minute, !.seconds = t.second]

\* rtc.setAlarm(hour, minute, 0, 0, day, month)
SetAlarm(r, h, mi, d, mo) ==
  [r EXCEPT !.alarmHour = h, !.alarmMinute = mi, !.alarmDayOfMonth = d, !.alarmMonth = mo]

\* rtc.setAlarmMode(mode)
SetAlarmMode(r, mode) == [r EXCEPT !.alarmMode = mode]

\* Alarm Modes: does the alarm programmed in r match calendar time t (seconds 0)
AlarmMatches(r, t) ==
  \/ r.alarmMode = 4 /\ t.hour = r.alarmHour /\ t.minute = r.alarmMinute
  \/ r.alarmMode = 5 /\ t.minute = r.alarmMinute

\* Minutes from 2000-01-01 00:00 to calendar time t (rtc.getEpoch, gnss.getUnixEpoch)
DaysBefore(month, year) ==
  LET cum == <<0, 31, 59, 90, 120, 151, 181, 212, 243, 273, 304, 334>>
  IN  cum[month] + (IF month > 2 /\ year % 4 = 0 THEN 1 ELSE 0)
EpochMinutes(t) ==
  (((t.year * 365 + (t.year + 3) \div 4 + DaysBefore(t.month, t.year) + (t.day - 1)) * 24
     + t.hour) * 60) + t.minute
EpochSeconds(t) == EpochMinutes(t) * 60 + t.second

\* rtc.getEpoch(), gnss.getUnixEpoch(): seconds from 1970-01-01 00:00:00, an unsigned long
UnixEpoch(t) == 946684800 + EpochSeconds(t)

\* rtcDrift = gnssEpoch - rtcEpoch: the difference of two unsigned 32-bit values is
\* taken modulo 2^32 (here on 16-bit halves with a borrow) and the 32 bits are then
\* read as the signed long rtcDrift
epochDifferenceAbs(gnssEpoch, rtcEpoch) ==
  IF gnssEpoch >= rtcEpoch THEN gnssEpoch - rtcEpoch ELSE rtcEpoch - gnssEpoch
epochDifference(gnssEpoch, rtcEpoch) ==
  LET lo     == ((gnssEpoch % 65536) - (rtcEpoch % 65536)) % 65536
      borrow == IF (gnssEpoch % 65536) < (rtcEpoch % 65536) THEN 1 ELSE 0
      hi     == ((gnssEpoch \div 65536) - (rtcEpoch \div 65536) - borrow) % 65536
  IN  IF hi >= 32768 THEN (hi - 65536) * 65536 + lo ELSE hi * 65536 + lo

----------------------------------------------------------------------------
(* 01_rtc.ino: the scheduler's functions of the clock and the settings *)

\* isSummer with the last day of the window left out
isSummerEndExcluded(t) ==
  LET currentMD == (t.month * 100) + t.day
      startMD == (alarmSummerStartMonth * 100) + alarmSummerStartDay
      endMD == (alarmSummerEndMonth * 100) + alarmSummerEndDay
  IN  currentMD >= startMD /\ currentMD < endMD

\* isSummer with a window that starts after its end read as spanning the new year
isSummerAcrossNewYear(t) ==
  LET currentMD == (t.month * 100) + t.day
      startMD == (alarmSummerStartMonth * 100) + alarmSummerStartDay
      endMD == (alarmSummerEndMonth * 100) + alarmSummerEndDay
  IN  IF startMD <= endMD THEN currentMD >= startMD /\ currentMD <= endMD
      ELSE currentMD >= startMD \/ currentMD <= endMD

\* Determine if it is currently summer.
isSummer(t) ==
  LET currentMD == (t.month * 100) + t.day
      startMD == (alarmSummerStartMonth * 100) + alarmSummerStartDay
      endMD == (alarmSummerEndMonth * 100) + alarmSummerEndDay
  IN  currentMD >= startMD /\ currentMD <= endMD

\* Check if today is the last day before summer logging starts.
isLastDayBeforeSummer(t) ==
  IF alarmSummerStartDay = 1
    THEN t.day = getLastDayOfMonth(t.month, t.year) /\ t.month = alarmSummerStartMonth - 1
    ELSE t.day = alarmSummerStartDay - 1 /\ t.month = alarmSummerStartMonth

\* Check and update the operation mode: the value assigned to operationMode
checkOperationMode(t, normal) ==
  IF summerMode /\ isSummer(t) THEN CONTINUOUS ELSE normal

\* The test of setAwakeAlarm and setSleepAlarm for the last day before summer
LastDayLoggingFinished(t) ==
  /\ summerMode
  /\ isLastDayBeforeSummer(t)
  /\ t.hour >= alarmStopHour
  /\ t.minute >= alarmStopMinute

\* setInitialAlarm with the mode recorded after the seasonal check instead of before
recordedModeAfterCheck(t, mode) == checkOperationMode(t, mode)

\* Store the current operation mode: the value setInitialAlarm records
recordedMode(t, mode) == mode

\* initialAlarmMode with the daily match for every mode
initialAlarmModeDaily(mode) == 4

\* The mode of the initial alarm and the alarm setInitialAlarm programs
initialAlarmMode(mode) == IF mode = ROLLING THEN 5 ELSE 4
initialAlarm(t, mode) ==
  CASE mode = DAILY -> <<alarmStartHour, alarmStartMinute, t.day, t.month>>
    [] mode = ROLLING -> <<0, 0, t.day, t.month>>
    [] OTHER -> <<0, 0, 0, 0>>

\* awakeAlarm with the overflow of the minute carried into the hour
awakeAlarmCarry(t, mode) ==
  IF mode = DAILY
    THEN <<alarmStopHour, alarmStopMinute, t.day, t.month>>
    ELSE <<(t.hour + alarmAwakeHours + (t.minute + alarmAwakeMinutes) \div 60) % 24,
           (t.minute + alarmAwakeMinutes) % 60, t.day, t.month>>

\* awakeAlarmMode with the hours matched whatever the awake period
awakeAlarmModeHours(mode) == 4

\* The alarm mode and the alarm setAwakeAlarm programs in Daily and Rolling mode
awakeAlarmMode(mode) ==
  IF mode = DAILY THEN 4 ELSE IF alarmAwakeHours > 0 THEN 4 ELSE 5
awakeAlarm(t, mode) ==
  IF mode = DAILY
    THEN <<alarmStopHour, alarmStopMinute, t.day, t.month>>
    ELSE <<(t.hour + alarmAwakeHours) % 24, (t.minute + alarmAwakeMinutes) % 60,
           t.day, t.month>>

\* sleepAlarm with the Daily sleep alarm set to the stop time
sleepAlarmAtStop(t, mode) ==
  IF mode = DAILY
    THEN (IF LastDayLoggingFinished(t)
            THEN <<0, 0, alarmSummerStartDay, alarmSummerStartMonth>>
            ELSE <<alarmStopHour, alarmStopMinute, t.day, t.month>>)
    ELSE <<(t.hour + alarmSleepHours) % 24, (t.minute + alarmSleepMinutes) % 60,
           t.day, t.month>>

\* The alarm mode and the alarm setSleepAlarm programs in Daily and Rolling mode
sleepAlarmMode(mode) ==
  IF mode = DAILY THEN 4 ELSE IF alarmSleepHours > 0 THEN 4 ELSE 5
sleepAlarm(t, mode) ==
  IF mode = DAILY
    THEN (IF LastDayLoggingFinished(t)
            THEN <<0, 0, alarmSummerStartDay, alarmSummerStartMonth>>
            ELSE <<alarmStartHour, alarmStartMinute, t.day, t.month>>)
    ELSE <<(t.hour + alarmSleepHours) % 24, (t.minute + alarmSleepMinutes) % 60,
           t.day, t.month>>

\* The calls each alarm-setting function makes to the alarm hardware, in the order of
\* its statements: am_hal_rtc_int_clear, rtc.setAlarm, rtc.setAlarmMode,
\* rtc.attachInterrupt
initialAlarmCalls == <<"setAlarm", "setAlarmMode", "attachInterrupt", "int_clear">>
awakeAlarmCalls(t, mode) ==
  IF mode = DAILY /\ LastDayLoggingFinished(t) THEN <<"int_clear">>
  ELSE IF mode = CONTINUOUS THEN <<"int_clear", "setAlarmMode">>
  ELSE <<"int_clear", "setAlarm", "setAlarmMode">>
sleepAlarmCalls(mode) ==
  IF mode = CONTINUOUS THEN <<"int_clear", "setAlarmMode">>
  ELSE <<"int_clear", "setAlarm", "setAlarmMode">>

\* rtc.setAlarm with the four fields of an alarm
Program(r, a) == SetAlarm(r, a[1], a[2], a[3], a[4])

\* Create timestamped log file name
FileName(t) == <<t.year, t.month, t.day, t.hour, t.minute, t.second>>

\* No message read yet: the value of the three locals before the first poll
NoFix == [fixType |-> 0, dateValid |-> FALSE, timeValid |-> FALSE]

----------------------------------------------------------------------------
(* Power-up *)

Init ==
  /\ \E sc \in Scenarios : cfg = sc[1] /\ gnssTime = sc[2]
  /\ rtc = [year |-> 0, month |-> 1, dayOfMonth |-> 1, hour |-> 0, minute |-> 0, seconds |-> 0,
            alarmHour |-> 0, alarmMinute |-> 0, alarmDayOfMonth |-> 0, alarmMonth |-> 0,
            alarmMode |-> 0]
  /\ intPending = FALSE
  /\ alarmFlag = FALSE
  /\ operationMode = cfg.operationMode
  /\ normalOperationMode = 0
  /\ alarmModeInitial = 4
  /\ alarmModeLogging = 4
  /\ alarmModeSleep = 4
  /\ dateCurrent = 0
  /\ dateNew = 0
  /\ firstTimeFlag = TRUE
  /\ rtcSyncFlag = FALSE
  /\ online = [microSd |-> FALSE, gnss |-> FALSE, logGnss |-> FALSE]
  /\ logFileName = <<>>
  /\ fileOpen = FALSE
  /\ avail = 0
  /\ maxFileBufferAvail = 0
  /\ remainingBytes = 0
  /\ bytesWritten = 0
  /\ syncFailCounter = 0
  /\ writeFailCounter = 0
  /\ closeFailCounter = 0
  /\ flushDue = TRUE
  /\ syncElapsed = 0
  /\ rtcDrift = 0
  /\ pc = "setup"
  /\ inSetup = TRUE
  /\ dayCount = 0
  /\ boot = [time |-> Time(0, 1, 1, 0, 0), synced |-> FALSE]
  /\ rxPending = 0
  /\ fixAvailable = FALSE
  /\ pvt = NoFix
  /\ syncStartDate = <<0, 0, 0>>
  /\ faults = 0
  /\ sessCommitted = 0
  /\ sessFailedWrites = 0
  /\ hwCalls = <<>>
  /\ lastCalls = <<>>

----------------------------------------------------------------------------
(* The environment: the clock advances, the alarm interrupt is raised *)

\* The poll loop of syncRtc goes on: millis() - loopStartTime < gnssTimeout * 10UL * 1000UL
SyncWithinTimeout == syncElapsed * 60 * 1000 < gnssTimeout * 10 * 1000

\* The program waits for time to pass: asleep with no alarm to handle, between two
\* passes of the logging loop, or polling a receiver that has no fix
Waiting ==
  \/ pc = "sleep" /\ ~alarmFlag
  \/ pc = "logLoop" /\ ~alarmFlag /\ ~flushDue
  \/ pc = "syncPoll" /\ ~fixAvailable /\ SyncWithinTimeout

Tick ==
  /\ ~intPending
  /\ Waiting
  /\ LET n == NextTime(Now)
         g == NextTime(gnssTime)
         step == (g.minute - gnssTime.minute) % 60
     IN  /\ dayCount' = dayCount + (IF g.day # gnssTime.day THEN 1 ELSE 0)
         /\ dayCount' <= MaxDays
         /\ gnssTime' = g
         /\ rtc' = SetClock(rtc, n)
         /\ intPending' = AlarmMatches(rtc, n)
         /\ syncElapsed' = IF pc = "syncPoll" THEN syncElapsed + step ELSE syncElapsed
  /\ flushDue' = TRUE
  /\ rxPending' = IF pc = "logLoop" THEN RxPerTick ELSE rxPending
  /\ UNCHANGED <<cfg, alarmFlag, modes, amodes, dates, rtcSyncFlag, rtcDrift, fixAvailable,
                 pvt, syncStartDate, online, logFileName, fileOpen, avail, remainingBytes,
                 maxFileBufferAvail,
                 counters, faults,
                 hist, pc, inSetup, boot, hwCalls>>
  /\ lastCalls' = <<>>

\* Interrupt handler for the RTC
am_rtc_isr ==
  /\ intPending
  /\ intPending' = FALSE
  /\ alarmFlag' = TRUE
  /\ UNCHANGED <<cfg, rtc, envv, modes, amodes, dates, syncv, online, logFileName,
                 store, pc, inSetup, boot, hwCalls>>
  /\ lastCalls' = <<>>

----------------------------------------------------------------------------
(* setup() *)

\* configureGnss that returns to setup() when gnss.begin has failed twice
afterGnssBeginReturns(ok) == "syncRtc"

\* configureGnss: gnss.begin succeeds and setup() goes on to syncRtc, or it fails
\* twice and the program enters while (1)
afterGnssBegin(ok) == IF ok THEN "syncRtc" ELSE "halt"

\* The calls of one pass of while (1) { blinkLed(3, 250); myDelay(2000); }: the two
\* functions signal and wait and do not restart the watchdog
haltLoopCalls == <<"blinkLed", "myDelay">>

\* Configure devices: configureRtc, configureSd, configureGnss.  A receiver that
\* cannot be initialised leaves the program in the endless loop of configureGnss.
setup ==
  /\ pc = "setup"
  /\ ~intPending
  /\ rtc' = SetClock(rtc, [Time(25, 8, 31, 23, 57) EXCEPT !.second = 30])
  /\ \E gnssBegin \in BOOLEAN :
       IF gnssBegin
         THEN /\ online' = [online EXCEPT !.microSd = TRUE, !.gnss = TRUE]
              /\ pc' = afterGnssBegin(gnssBegin)
         ELSE /\ online' = [online EXCEPT !.microSd = TRUE, !.gnss = FALSE]
              /\ pc' = afterGnssBegin(gnssBegin)
  /\ UNCHANGED <<cfg, envv, irq, modes, amodes, dates, syncv, logFileName, store, inSetup,
                 boot, hwCalls>>
  /\ lastCalls' = <<>>

\* One pass of the endless loop of configureGnss
configureGnss_halt ==
  /\ pc = "halt"
  /\ ~intPending
  /\ lastCalls' = haltLoopCalls
  /\ UNCHANGED <<cfg, rtc, envv, irq, modes, amodes, dates, syncv, online, logFileName,
                 store, pc, inSetup, boot, hwCalls>>

\* checkDate that never records the day in dateCurrent
checkDateUnrecorded(t, current) == <<0, t.day>>

\* Check RTC datetime: the values of <<dateCurrent, dateNew>> after checkDate
checkDate(t, current) == <<IF firstTimeFlag THEN t.day ELSE current, t.day>>

setup_checkDate ==
  /\ pc = "setup_checkDate"
  /\ ~intPending
  /\ dateCurrent' = checkDate(Now, dateCurrent)[1]
  /\ dateNew' = checkDate(Now, dateCurrent)[2]
  /\ pc' = "setInitialAlarm"
  /\ UNCHANGED <<cfg, rtc, envv, irq, modes, amodes, firstTimeFlag, syncv, online,
                 logFileName, store, inSetup, boot, hwCalls>>
  /\ lastCalls' = <<>>

----------------------------------------------------------------------------
(* syncRtc() *)

syncRtc_return == IF inSetup THEN "setup_checkDate" ELSE "loop_afterSync"

\* The messages a poll of the receiver may deliver
Fixes == [fixType : {0, 2, 3}, dateValid : BOOLEAN, timeValid : BOOLEAN]

\* driftExceeds with a drift of exactly 30 seconds counted as well
driftReaches(drift) == (IF drift < 0 THEN -drift ELSE drift) >= 30

\* Update logfile timestamp if more than 30 seconds of drift
driftExceeds(drift) == (IF drift < 0 THEN -drift ELSE drift) > 30

\* fixAccepted with the confirmed date not asked for
fixAcceptedTimeOnly(fix) == fix.fixType = 3 /\ fix.timeValid

\* Check if date and time are valid
fixAccepted(fix) == fix.fixType = 3 /\ fix.dateValid /\ fix.timeValid

\* The calls of one pass of the poll loop of syncRtc, in program order
syncLoopCalls(fix, drift) ==
  <<"petDog", "gnss.getPVT">>
    \o (IF fixAccepted(fix)
          THEN <<"rtc.getEpoch", "gnss.getUnixEpoch", "rtc.setEpoch">>
                 \o (IF driftExceeds(drift) THEN <<"getLogFileName">> ELSE <<>>)
          ELSE <<>>)

\* What a poll may read: anything from a receiver that has a position fix, nothing
\* that passes the check from one that has none
PolledFixes == IF fixAvailable THEN Fixes ELSE {fix \in Fixes : ~fixAccepted(fix)}

syncRtc ==
  /\ pc = "syncRtc"
  /\ ~intPending
  /\ rtcSyncFlag' = FALSE
  /\ syncElapsed' = 0
  /\ fixAvailable' \in BOOLEAN
  /\ pvt' = NoFix
  /\ syncStartDate' = <<rtc.year, rtc.month, rtc.dayOfMonth>>
  /\ pc' = IF online.gnss THEN "syncPoll" ELSE syncRtc_return
  /\ UNCHANGED <<cfg, rtc, envv, irq, modes, amodes, dates, rtcDrift, online, logFileName,
                 store, inSetup, boot, hwCalls>>
  /\ lastCalls' = <<>>

\* One pass of the poll loop in which gnss.getPVT() delivers a fix
syncRtc_poll ==
  /\ pc = "syncPoll"
  /\ ~intPending
  /\ ~rtcSyncFlag /\ SyncWithinTimeout
  /\ \E fix \in PolledFixes :
       /\ pvt' = fix
       /\ IF fixAccepted(fix)
            THEN LET rtcEpoch  == UnixEpoch(Now)
                     gnssEpoch == UnixEpoch(gnssTime)
                     drift     == epochDifference(gnssEpoch, rtcEpoch)
                 IN  /\ rtc' = SetClock(rtc, gnssTime)
                     /\ rtcDrift' = drift
                     /\ rtcSyncFlag' = TRUE
                     /\ logFileName' = IF driftExceeds(drift) THEN FileName(gnssTime)
                                       ELSE logFileName
                     /\ pc' = syncRtc_return
                     /\ lastCalls' = syncLoopCalls(fix, drift)
            ELSE /\ lastCalls' = syncLoopCalls(fix, 0)
                 /\ UNCHANGED <<rtc, rtcDrift, rtcSyncFlag, logFileName, pc>>
  /\ UNCHANGED <<cfg, envv, irq, modes, amodes, dates, syncElapsed, fixAvailable,
                 syncStartDate, online,
                 store, inSetup, boot, hwCalls>>

\* The poll loop ends without a fix
syncRtc_timeout ==
  /\ pc = "syncPoll"
  /\ ~intPending
  /\ ~rtcSyncFlag /\ ~SyncWithinTimeout
  /\ pvt' = NoFix
  /\ pc' = syncRtc_return
  /\ UNCHANGED <<cfg, rtc, envv, irq, modes, amodes, dates, rtcSyncFlag, syncElapsed,
                 rtcDrift, fixAvailable, syncStartDate, online, logFileName,
                 store, inSetup, boot, hwCalls>>
  /\ lastCalls' = <<>>

----------------------------------------------------------------------------
(* The alarm scheduler (01_rtc.ino) *)

\* Set the initial RTC alarm.
setInitialAlarm ==
  /\ pc = "setInitialAlarm"
  /\ ~intPending
  /\ LET normal == recordedMode(Now, operationMode)
         mode == checkOperationMode(Now, normal)
     IN  /\ normalOperationMode' = normal
         /\ operationMode' = mode
         /\ alarmModeInitial' = initialAlarmMode(mode)
         /\ rtc' = SetAlarmMode(Program(rtc, initialAlarm(Now, mode)), initialAlarmMode(mode))
         /\ alarmFlag' = IF mode = CONTINUOUS THEN TRUE ELSE alarmFlag
  /\ intPending' = FALSE
  /\ pc' = "loop"
  /\ inSetup' = FALSE
  /\ boot' = [time |-> Now, synced |-> rtcSyncFlag]
  /\ hwCalls' = initialAlarmCalls
  /\ UNCHANGED <<cfg, envv, alarmModeLogging, alarmModeSleep, dates, syncv, online,
                 logFileName, store>>
  /\ lastCalls' = <<>>

\* Set the RTC logging alarm.
setAwakeAlarm ==
  /\ pc = "setAwakeAlarm"
  /\ ~intPending
  /\ intPending' = FALSE
  /\ LET mode == checkOperationMode(Now, normalOperationMode)
     IN  /\ operationMode' = mode
         /\ hwCalls' = awakeAlarmCalls(Now, mode)
         /\ IF mode = DAILY /\ LastDayLoggingFinished(Now)
              THEN UNCHANGED <<rtc, alarmModeLogging, alarmFlag>>
              ELSE /\ alarmModeLogging' = IF mode = CONTINUOUS THEN alarmModeLogging
                                          ELSE awakeAlarmMode(mode)
                   /\ rtc' = SetAlarmMode(IF mode = CONTINUOUS THEN rtc
                                          ELSE Program(rtc, awakeAlarm(Now, mode)),
                                          alarmModeLogging')
                   /\ alarmFlag' = FALSE
  /\ pc' = "getLogFileName"
  /\ UNCHANGED <<cfg, envv, normalOperationMode, alarmModeInitial, alarmModeSleep, dates,
                 syncv, online, logFileName, store, inSetup, boot>>
  /\ lastCalls' = <<>>

\* Set the RTC sleep alarm.
setSleepAlarm ==
  /\ pc = "setSleepAlarm"
  /\ ~intPending
  /\ intPending' = FALSE
  /\ LET mode == checkOperationMode(Now, normalOperationMode)
     IN  /\ operationMode' = mode
         /\ alarmModeSleep' = IF mode = CONTINUOUS THEN alarmModeSleep
                              ELSE sleepAlarmMode(mode)
         /\ rtc' = SetAlarmMode(IF mode = CONTINUOUS THEN rtc
                                ELSE Program(rtc, sleepAlarm(Now, mode)),
                                alarmModeSleep')
         /\ alarmFlag' = FALSE
         /\ hwCalls' = sleepAlarmCalls(mode)
  /\ pc' = "goToSleep"
  /\ UNCHANGED <<cfg, envv, normalOperationMode, alarmModeInitial, alarmModeLogging, dates,
                 syncv, online, logFileName, store, inSetup, boot>>
  /\ lastCalls' = <<>>

----------------------------------------------------------------------------
(* loop() *)

\* Check if alarm flag is set
loop ==
  /\ pc = "loop"
  /\ ~intPending
  /\ pc' = IF alarmFlag THEN "setAwakeAlarm" ELSE "goToSleep"
  /\ UNCHANGED <<cfg, rtc, envv, irq, modes, amodes, dates, syncv, online, logFileName,
                 store, inSetup, boot, hwCalls>>
  /\ lastCalls' = <<>>

\* Get timestamped log file name
getLogFileName ==
  /\ pc = "getLogFileName"
  /\ ~intPending
  /\ logFileName' = FileName(Now)
  /\ pc' = "checkDate"
  /\ UNCHANGED <<cfg, rtc, envv, irq, modes, amodes, dates, syncv, online, store, inSetup,
                 boot, hwCalls>>
  /\ lastCalls' = <<>>

\* Synchronize RTC only if date changed (daily)
loop_checkDate ==
  /\ pc = "checkDate"
  /\ ~intPending
  /\ dateCurrent' = checkDate(Now, dateCurrent)[1]
  /\ dateNew' = checkDate(Now, dateCurrent)[2]
  /\ pc' = IF dateCurrent' # dateNew' THEN "syncRtc" ELSE "logGnss"
  /\ UNCHANGED <<cfg, rtc, envv, irq, modes, amodes, firstTimeFlag, syncv, online,
                 logFileName, store, inSetup, boot, hwCalls>>
  /\ lastCalls' = <<>>

loop_afterSync ==
  /\ pc = "loop_afterSync"
  /\ ~intPending
  /\ dateCurrent' = checkDate(Now, dateNew)[1]
  /\ dateNew' = checkDate(Now, dateNew)[2]
  /\ pc' = "logGnss"
  /\ UNCHANGED <<cfg, rtc, envv, irq, modes, amodes, firstTimeFlag, syncv, online,
                 logFileName, store, inSetup, boot, hwCalls>>
  /\ lastCalls' = <<>>

\* Enter deep sleep; the first power-down ends the first-time phase
goToSleep ==
  /\ pc = "goToSleep"
  /\ ~intPending
  /\ firstTimeFlag' = FALSE
  /\ pc' = "sleep"
  /\ UNCHANGED <<cfg, rtc, envv, irq, modes, amodes, dateCurrent, dateNew, syncv, online,
                 logFileName, store, inSetup, boot, hwCalls>>
  /\ lastCalls' = <<>>

\* An interrupt ends the deep sleep and loop() runs again
wakeUp ==
  /\ pc = "sleep"
  /\ ~intPending
  /\ alarmFlag
  /\ pc' = "loop"
  /\ UNCHANGED <<cfg, rtc, envv, irq, modes, amodes, dates, syncv, online, logFileName,
                 store, inSetup, boot, hwCalls>>
  /\ lastCalls' = <<>>

----------------------------------------------------------------------------
(* logGnss() *)

\* The highest level of the buffer, kept by the receiver library as bytes are stored
highWaterMark(mark, level) == IF level > mark THEN level ELSE mark

\* Warn if fileBufferSize was more than 80% full
bufferWarning(maxBufferBytes) == maxBufferBytes > ((fileBufferSize \div 5) * 4)

\* The calls of the periodic part of the logging loop, in program order
flushCalls(maxBufferBytes) ==
  <<"logFile.sync", "gnss.getMaxFileBufferAvail">>
    \o (IF bufferWarning(maxBufferBytes) THEN <<"DEBUG_PRINTLN(Warning: File buffer >80 % full)">>
        ELSE <<>>)

\* gnss.checkUblox(): the buffer level after k new bytes
checkUblox(level, k) == IF level + k > fileBufferSize THEN fileBufferSize ELSE level + k

\* A storage call may fail while the fault budget of the run lasts
MayFail(ok) == ok \/ faults < MaxFaults

\* The calls of one iteration of the logging loop up to the test of the buffer level,
\* of one iteration of the loop that writes whole blocks, and of one iteration of the
\* loop that writes the remaining bytes, in program order
logLoopCalls == <<"petDog", "gnss.checkUblox">>
blockLoopCalls == <<"petDog", "logFile.write", "gnss.checkUblox">>
drainLoopCallsUnserviced == <<"logFile.write">>
drainLoopCalls == <<"petDog", "logFile.write">>

\* if (!logFile.open(...)) { ...; return; }: where logGnss goes on after the open
afterOpenUnchecked(ok) == "logLoop"

\* if (!logFile.open(...)) { ...; return; }: where logGnss goes on after the open
afterOpen(ok) == IF ok THEN "logLoop" ELSE "setSleepAlarm"

\* Create a new log file and open for writing; reset counters
logGnss ==
  /\ pc = "logGnss"
  /\ ~intPending
  /\ IF online.microSd /\ online.gnss
       THEN \E ok \in BOOLEAN :
              /\ MayFail(ok)
              /\ IF ok
                   THEN /\ fileOpen' = TRUE
                        /\ online' = [online EXCEPT !.logGnss = TRUE]
                        /\ closeFailCounter' = 0
                        /\ avail' = 0
                        /\ maxFileBufferAvail' = 0
                        /\ sessCommitted' = 0
                        /\ sessFailedWrites' = 0
                        /\ faults' = faults
                        /\ pc' = afterOpen(ok)
                   ELSE /\ faults' = faults + 1
                        /\ pc' = afterOpen(ok)
                        /\ UNCHANGED <<fileOpen, online, closeFailCounter, avail,
                                        maxFileBufferAvail, hist>>
            /\ lastCalls' = <<"logFile.open">>
       ELSE /\ online' = [online EXCEPT !.logGnss = FALSE]
            /\ pc' = "setSleepAlarm"
            /\ lastCalls' = <<>>
            /\ UNCHANGED <<fileOpen, closeFailCounter, avail, maxFileBufferAvail, hist, faults>>
  /\ UNCHANGED <<cfg, rtc, envv, irq, modes, amodes, dates, syncv, logFileName,
                 remainingBytes, rxPending, bytesWritten, syncFailCounter,
                 writeFailCounter, flushDue, inSetup, boot, hwCalls>>

\* while (!alarmFlag)
logLoopContinuesAlways(flag) == TRUE

\* while (!alarmFlag)
logLoopContinues(flag) == ~flag

\* Log data until logging alarm triggers: the test of the flag, then checkUblox
logGnss_loop ==
  /\ pc = "logLoop"
  /\ ~intPending
  /\ IF ~logLoopContinues(alarmFlag)
       THEN /\ remainingBytes' = avail
            /\ pc' = "logDrain"
            /\ lastCalls' = <<>>
            /\ UNCHANGED <<avail, maxFileBufferAvail, rxPending>>
       ELSE /\ avail' = checkUblox(avail, rxPending)
            /\ maxFileBufferAvail' = highWaterMark(maxFileBufferAvail, avail')
            /\ rxPending' = 0
            /\ pc' = "logBlock"
            /\ lastCalls' = logLoopCalls
            /\ UNCHANGED remainingBytes
  /\ UNCHANGED <<cfg, rtc, envv, irq, modes, amodes, dates, syncv, online, logFileName,
                 fileOpen, counters, flushDue, faults, hist, inSetup, boot, hwCalls>>

\* Check if sdWriteSize bytes are waiting in the buffer: write one block
logGnss_block ==
  /\ pc = "logBlock"
  /\ ~intPending
  /\ IF avail >= sdWriteSize
       THEN \E ok \in BOOLEAN :
              /\ MayFail(ok)
              /\ writeFailCounter' = IF ok THEN writeFailCounter ELSE writeFailCounter + 1
              /\ bytesWritten' = bytesWritten + sdWriteSize
              /\ avail' = checkUblox(avail - sdWriteSize, rxPending)
              /\ maxFileBufferAvail' = highWaterMark(maxFileBufferAvail, avail')
              /\ rxPending' = 0
              /\ faults' = IF ok THEN faults ELSE faults + 1
              /\ sessCommitted' = IF ok THEN sessCommitted + sdWriteSize ELSE sessCommitted
              /\ sessFailedWrites' = IF ok THEN sessFailedWrites ELSE sessFailedWrites + 1
              /\ pc' = "logBlock"
              /\ lastCalls' = blockLoopCalls
       ELSE /\ pc' = "logFlush"
            /\ lastCalls' = <<>>
            /\ UNCHANGED <<writeFailCounter, bytesWritten, avail, maxFileBufferAvail,
                            rxPending, faults, hist>>
  /\ UNCHANGED <<cfg, rtc, envv, irq, modes, amodes, dates, syncv, online, logFileName,
                 fileOpen, remainingBytes, syncFailCounter, closeFailCounter, flushDue,
                 inSetup, boot, hwCalls>>

\* A counter that counts every call
countEveryCall(counter, ok) == counter + 1

\* if (!logFile.sync()) syncFailCounter++;  if (!logFile.close()) closeFailCounter++;
countFailure(counter, ok) == IF ok THEN counter ELSE counter + 1

\* Periodically sync the log file
logGnss_flush ==
  /\ pc = "logFlush"
  /\ ~intPending
  /\ IF flushDue
       THEN \E ok \in BOOLEAN :
              /\ MayFail(ok)
              /\ syncFailCounter' = countFailure(syncFailCounter, ok)
              /\ faults' = IF ok THEN faults ELSE faults + 1
              /\ flushDue' = FALSE
              /\ lastCalls' = flushCalls(maxFileBufferAvail)
       ELSE /\ lastCalls' = <<>>
            /\ UNCHANGED <<syncFailCounter, faults, flushDue>>
  /\ pc' = "logLoop"
  /\ UNCHANGED <<cfg, rtc, envv, irq, modes, amodes, dates, syncv, online, logFileName,
                 fileOpen, bufv, bytesWritten, writeFailCounter, closeFailCounter, hist,
                 inSetup, boot, hwCalls>>

\* bytesToWrite capped at half a block
bytesToWriteHalved(remaining) ==
  IF remaining > sdWriteSize \div 2 THEN sdWriteSize \div 2 ELSE remaining

\* uint16_t bytesToWrite = remainingBytes; if (bytesToWrite > sdWriteSize) bytesToWrite = sdWriteSize;
bytesToWrite(remaining) == IF remaining > sdWriteSize THEN sdWriteSize ELSE remaining

\* Check for bytes remaining in file buffer: write them sdWriteSize bytes at a time
logGnss_drain ==
  /\ pc = "logDrain"
  /\ ~intPending
  /\ IF remainingBytes > 0
       THEN \E ok \in BOOLEAN :
              LET n == bytesToWrite(remainingBytes)
              IN  /\ MayFail(ok)
                  /\ avail' = avail - n
                  /\ bytesWritten' = bytesWritten + n
                  /\ remainingBytes' = remainingBytes - n
                  /\ faults' = IF ok THEN faults ELSE faults + 1
                  /\ sessCommitted' = sessCommitted + n
                  /\ sessFailedWrites' = IF ok THEN sessFailedWrites
                                         ELSE sessFailedWrites + 1
                  /\ pc' = "logDrain"
                  /\ lastCalls' = drainLoopCalls
       ELSE /\ pc' = "logSync"
            /\ lastCalls' = <<>>
            /\ UNCHANGED <<avail, bytesWritten, remainingBytes, faults, hist>>
  /\ UNCHANGED <<cfg, rtc, envv, irq, modes, amodes, dates, syncv, online, logFileName,
                 fileOpen, maxFileBufferAvail, rxPending, syncFailCounter,
                 writeFailCounter, closeFailCounter, flushDue, inSetup, boot, hwCalls>>

\* Sync the log file
logGnss_sync ==
  /\ pc = "logSync"
  /\ ~intPending
  /\ \E ok \in BOOLEAN :
       /\ MayFail(ok)
       /\ syncFailCounter' = countFailure(syncFailCounter, ok)
       /\ faults' = IF ok THEN faults ELSE faults + 1
  /\ pc' = "logClose"
  /\ lastCalls' = <<"logFile.sync">>
  /\ UNCHANGED <<cfg, rtc, envv, irq, modes, amodes, dates, syncv, online, logFileName,
                 fileOpen, bufv, bytesWritten, writeFailCounter, closeFailCounter, flushDue,
                 hist, inSetup, boot, hwCalls>>

\* logFile.close() that leaves the file open when it fails
openAfterFailedClose(ok) == ~ok

\* logFile.close(): the file is closed whether or not the call reports success
openAfterClose(ok) == FALSE

\* Close the log file
logGnss_close ==
  /\ pc = "logClose"
  /\ ~intPending
  /\ \E ok \in BOOLEAN :
       /\ MayFail(ok)
       /\ closeFailCounter' = countFailure(closeFailCounter, ok)
       /\ faults' = IF ok THEN faults ELSE faults + 1
       /\ fileOpen' = openAfterClose(ok)
  /\ pc' = "setSleepAlarm"
  /\ lastCalls' = <<"logFile.close">>
  /\ UNCHANGED <<cfg, rtc, envv, irq, modes, amodes, dates, syncv, online, logFileName,
                 bufv, bytesWritten, syncFailCounter, writeFailCounter, flushDue, hist,
                 inSetup, boot, hwCalls>>

----------------------------------------------------------------------------

Next ==
  \/ Tick
  \/ am_rtc_isr
  \/ setup
  \/ configureGnss_halt
  \/ setup_checkDate
  \/ syncRtc
  \/ syncRtc_poll
  \/ syncRtc_timeout
  \/ setInitialAlarm
  \/ loop
  \/ setAwakeAlarm
  \/ getLogFileName
  \/ loop_checkDate
  \/ loop_afterSync
  \/ logGnss
  \/ logGnss_loop
  \/ logGnss_block
  \/ logGnss_flush
  \/ logGnss_drain
  \/ logGnss_sync
  \/ logGnss_close
  \/ setSleepAlarm
  \/ goToSleep
  \/ wakeUp

Spec == Init /\ [][Next]_vars

----------------------------------------------------------------------------
(* The scheduler's functions on their own: one call of setInitialAlarm,
   setAwakeAlarm or setSleepAlarm from any time of the grid under any of the
   settings below *)

FnHours == {0, 1, 2, 3, 12, 13, 14, 21, 22, 23}
FnDates == {<<1, 1>>, <<1, 31>>, <<2, 4>>, <<2, 5>>, <<3, 1>>, <<6, 2>>, <<6, 3>>}
FnDaily == {<<13, 0, 14, 0>>, <<22, 0, 2, 30>>}
FnRolling == {<<1, 30, 0, 15>>, <<0, 30, 1, 0>>, <<0, 45, 23, 30>>}
FnWindows == {<<5, 2, 2, 6>>, <<1, 2, 30, 9>>}

FnSettings ==
  { Settings(mode, d[1], d[2], d[3], d[4], r[1], r[2], r[3], r[4], summer,
             w[1], w[2], w[3], w[4]) :
      mode \in {DAILY, ROLLING, CONTINUOUS}, d \in FnDaily, r \in FnRolling,
      summer \in BOOLEAN, w \in FnWindows }

FnTimes == { Time(25, md[1], md[2], h, mi) : md \in FnDates, h \in FnHours, mi \in Minutes }

SchedInit ==
  /\ cfg \in FnSettings
  /\ gnssTime \in FnTimes
  /\ rtc = [year |-> gnssTime.year, month |-> gnssTime.month, dayOfMonth |-> gnssTime.day,
            hour |-> gnssTime.hour, minute |-> gnssTime.minute, seconds |-> 0,
            alarmHour |-> 0, alarmMinute |-> 0, alarmDayOfMonth |-> 0, alarmMonth |-> 0,
            alarmMode |-> 0]
  /\ pc \in {"setInitialAlarm", "setAwakeAlarm", "setSleepAlarm"}
  /\ inSetup = (pc = "setInitialAlarm")
  /\ normalOperationMode = IF inSetup THEN 0 ELSE cfg.operationMode
  /\ operationMode \in IF inSetup THEN {cfg.operationMode}
                       ELSE {cfg.operationMode, CONTINUOUS}
  /\ intPending = FALSE
  /\ alarmFlag = (pc = "setAwakeAlarm")
  /\ alarmModeInitial = 4
  /\ alarmModeLogging = 4
  /\ alarmModeSleep = 4
  /\ dateCurrent = gnssTime.day
  /\ dateNew = gnssTime.day
  /\ firstTimeFlag = inSetup
  /\ rtcSyncFlag = TRUE
  /\ online = [microSd |-> TRUE, gnss |-> TRUE, logGnss |-> FALSE]
  /\ logFileName = <<>>
  /\ fileOpen = FALSE
  /\ avail = 0
  /\ maxFileBufferAvail = 0
  /\ remainingBytes = 0
  /\ bytesWritten = 0
  /\ syncFailCounter = 0
  /\ writeFailCounter = 0
  /\ closeFailCounter = 0
  /\ flushDue = TRUE
  /\ syncElapsed = 0
  /\ rtcDrift = 0
  /\ dayCount = 0
  /\ boot = IF inSetup THEN [time |-> Time(0, 1, 1, 0, 0), synced |-> FALSE]
            ELSE [time |-> gnssTime, synced |-> TRUE]
  /\ rxPending = 0
  /\ fixAvailable = FALSE
  /\ pvt = NoFix
  /\ syncStartDate = <<0, 0, 0>>
  /\ faults = 0
  /\ sessCommitted = 0
  /\ sessFailedWrites = 0
  /\ hwCalls = <<>>
  /\ lastCalls = <<>>

SchedNext ==
  \/ setInitialAlarm
  \/ setAwakeAlarm
  \/ setSleepAlarm

SchedSpec == SchedInit /\ [][SchedNext]_vars

----------------------------------------------------------------------------
(* syncRtc on its own: one call, at power-up or in a cycle of loop() after a day
   change, with the receiver's time within two minutes of the clock or far from it *)

SyncSeconds == {0, 1, 29, 30, 31, 59}

\* The clock when syncRtc is called: the time set by configureRtc, or the start of a
\* cycle of a Rolling device just after midnight
SyncClock(atBoot, sec) ==
  IF atBoot THEN [Time(25, 8, 31, 23, 57) EXCEPT !.second = 30]
  ELSE [Time(25, 3, 2, 0, 15) EXCEPT !.second = sec]

\* The receiver's time at the call
SyncTimes(t) ==
  { [t EXCEPT !.minute = m, !.second = sec] :
      m \in {t.minute - 1, t.minute, t.minute + 1}, sec \in SyncSeconds }
  \cup {Time(25, 1, 1, 9, 0)}

SyncInit ==
  /\ cfg = RollingPlain
  /\ inSetup \in BOOLEAN
  /\ \E sec \in {0, 30} :
       LET t == SyncClock(inSetup, sec)
       IN  /\ gnssTime \in SyncTimes(t)
           /\ rtc = [year |-> t.year, month |-> t.month, dayOfMonth |-> t.day,
                     hour |-> t.hour, minute |-> t.minute, seconds |-> t.second,
                     alarmHour |-> IF inSetup THEN 0 ELSE 1,
                     alarmMinute |-> IF inSetup THEN 0 ELSE 45,
                     alarmDayOfMonth |-> IF inSetup THEN 0 ELSE t.day,
                     alarmMonth |-> IF inSetup THEN 0 ELSE t.month,
                     alarmMode |-> IF inSetup THEN 0 ELSE 4]
           /\ logFileName = IF inSetup THEN <<>> ELSE FileName(t)
           /\ boot = IF inSetup THEN [time |-> Time(0, 1, 1, 0, 0), synced |-> FALSE]
                     ELSE [time |-> Time(25, 3, 1, 9, 0), synced |-> TRUE]
  /\ pc = "syncRtc"
  /\ online \in {[microSd |-> TRUE, gnss |-> g, logGnss |-> FALSE] : g \in BOOLEAN}
  /\ rtcSyncFlag \in BOOLEAN
  /\ operationMode = cfg.operationMode
  /\ normalOperationMode = IF inSetup THEN 0 ELSE cfg.operationMode
  /\ intPending = FALSE
  /\ alarmFlag = FALSE
  /\ alarmModeInitial = IF inSetup THEN 4 ELSE 5
  /\ alarmModeLogging = 4
  /\ alarmModeSleep = IF inSetup THEN 4 ELSE 5
  /\ dateCurrent = IF inSetup THEN 0 ELSE 1
  /\ dateNew = IF inSetup THEN 0 ELSE 2
  /\ firstTimeFlag = inSetup
  /\ fileOpen = FALSE
  /\ avail = 0
  /\ maxFileBufferAvail = 0
  /\ remainingBytes = 0
  /\ bytesWritten = 0
  /\ syncFailCounter = 0
  /\ writeFailCounter = 0
  /\ closeFailCounter = 0
  /\ flushDue = TRUE
  /\ syncElapsed = 0
  /\ rtcDrift = 0
  /\ dayCount = 0
  /\ rxPending = 0
  /\ fixAvailable = FALSE
  /\ pvt = NoFix
  /\ syncStartDate = <<0, 0, 0>>
  /\ faults = 0
  /\ sessCommitted = 0
  /\ sessFailedWrites = 0
  /\ hwCalls = IF inSetup THEN <<>> ELSE awakeAlarmCalls(Now, ROLLING)
  /\ lastCalls = <<>>

SyncNext ==
  \/ syncRtc
  \/ syncRtc_poll
  \/ syncRtc_timeout
  \/ Tick

SyncSpec == SyncInit /\ [][SyncNext]_vars

----------------------------------------------------------------------------
(* One call of logGnss in a cycle of loop(), from the call to the return *)

\* The device and its clock at the call: a Daily device at its start time with the
\* stop alarm one hour ahead, or a Rolling device with the stop alarm 90 minutes ahead
LogStarts == {<<DailyPlain, Time(25, 3, 2, 13, 0), 14, 0>>,
              <<RollingPlain, Time(25, 3, 2, 0, 15), 1, 45>>}

\* bytesWritten at the call: nothing written yet, or the total of a long deployment,
\* 600 bytes short of 2^32 (the total is carried from session to session)
LogTotals == {0, -600}

LogInit ==
  /\ \E st \in LogStarts :
       LET t == st[2]
       IN  /\ cfg = st[1]
           /\ gnssTime = t
           /\ rtc = [year |-> t.year, month |-> t.month, dayOfMonth |-> t.day,
                     hour |-> t.hour, minute |-> t.minute, seconds |-> 0,
                     alarmHour |-> st[3], alarmMinute |-> st[4],
                     alarmDayOfMonth |-> t.day, alarmMonth |-> t.month, alarmMode |-> 4]
           /\ logFileName = FileName(t)
           /\ hwCalls = awakeAlarmCalls(t, st[1].operationMode)
  /\ pc = "logGnss"
  /\ inSetup = FALSE
  /\ online \in {[microSd |-> sd, gnss |-> TRUE, logGnss |-> FALSE] : sd \in BOOLEAN}
  /\ alarmFlag \in BOOLEAN
  /\ intPending = FALSE
  /\ operationMode = cfg.operationMode
  /\ normalOperationMode = cfg.operationMode
  /\ alarmModeInitial = IF cfg.operationMode = ROLLING THEN 5 ELSE 4
  /\ alarmModeLogging = 4
  /\ alarmModeSleep = 4
  /\ dateCurrent = 2
  /\ dateNew = 2
  /\ firstTimeFlag = FALSE
  /\ rtcSyncFlag = TRUE
  /\ boot = [time |-> Time(25, 3, 1, 9, 0), synced |-> TRUE]
  /\ fileOpen = FALSE
  /\ avail \in {0, 700}
  /\ maxFileBufferAvail = avail
  /\ remainingBytes = 0
  /\ bytesWritten \in LogTotals
  /\ syncFailCounter = 0
  /\ writeFailCounter = 0
  /\ closeFailCounter = 0
  /\ flushDue = TRUE
  /\ syncElapsed = 0
  /\ rtcDrift = 0
  /\ dayCount = 0
  /\ rxPending = 0
  /\ fixAvailable = FALSE
  /\ pvt = NoFix
  /\ syncStartDate = <<25, 3, 2>>
  /\ faults = 0
  /\ sessCommitted = 0
  /\ sessFailedWrites = 0
  /\ lastCalls = <<>>

\* The steps of the program inside logGnss, and the interrupt handler
LogProgram ==
  \/ am_rtc_isr
  \/ logGnss
  \/ logGnss_loop
  \/ logGnss_block
  \/ logGnss_flush
  \/ logGnss_drain
  \/ logGnss_sync
  \/ logGnss_close

LogNext == Tick \/ LogProgram

LogSpec == LogInit /\ [][LogNext]_vars

\* The processor runs the program whenever it is not asleep, and takes a pending
\* interrupt: a step of the program that stays possible is taken
LogLiveSpec == LogSpec /\ WF_vars(LogProgram)

----------------------------------------------------------------------------
(* A session of logGnss from a flush boundary on, after a burst from the receiver *)

\* The high-water mark of the buffer at the boundary: an idle receiver, the level of a
\* normal pass, the levels either side of four fifths of the buffer, a full buffer
HighWaterMarks == {0, 1176, fileBufferSize} \cup (13100 .. 13110)

FlushInit ==
  /\ \E st \in LogStarts :
       LET t == st[2]
       IN  /\ cfg = st[1]
           /\ gnssTime = t
           /\ rtc = [year |-> t.year, month |-> t.month, dayOfMonth |-> t.day,
                     hour |-> t.hour, minute |-> t.minute, seconds |-> 0,
                     alarmHour |-> st[3], alarmMinute |-> st[4],
                     alarmDayOfMonth |-> t.day, alarmMonth |-> t.month, alarmMode |-> 4]
           /\ logFileName = FileName(t)
           /\ hwCalls = awakeAlarmCalls(t, st[1].operationMode)
  /\ pc = "logFlush"
  /\ inSetup = FALSE
  /\ online = [microSd |-> TRUE, gnss |-> TRUE, logGnss |-> TRUE]
  /\ alarmFlag = FALSE
  /\ intPending = FALSE
  /\ operationMode = cfg.operationMode
  /\ normalOperationMode = cfg.operationMode
  /\ alarmModeInitial = IF cfg.operationMode = ROLLING THEN 5 ELSE 4
  /\ alarmModeLogging = 4
  /\ alarmModeSleep = 4
  /\ dateCurrent = 2
  /\ dateNew = 2
  /\ firstTimeFlag = FALSE
  /\ rtcSyncFlag = TRUE
  /\ boot = [time |-> Time(25, 3, 1, 9, 0), synced |-> TRUE]
  /\ fileOpen = TRUE
  /\ maxFileBufferAvail \in HighWaterMarks
  /\ avail = IF maxFileBufferAvail = 0 THEN 0 ELSE 76
  /\ remainingBytes = 0
  /\ bytesWritten = maxFileBufferAvail - avail
  /\ syncFailCounter = 0
  /\ writeFailCounter = 0
  /\ closeFailCounter = 0
  /\ flushDue = TRUE
  /\ syncElapsed = 0
  /\ rtcDrift = 0
  /\ dayCount = 0
  /\ rxPending = 0
  /\ fixAvailable = FALSE
  /\ pvt = NoFix
  /\ syncStartDate = <<25, 3, 2>>
  /\ faults = 0
  /\ sessCommitted = bytesWritten
  /\ sessFailedWrites = 0
  /\ lastCalls = <<>>

FlushNext ==
  \/ Tick
  \/ am_rtc_isr
  \/ logGnss_loop
  \/ logGnss_block
  \/ logGnss_flush
  \/ logGnss_drain
  \/ logGnss_sync
  \/ logGnss_close

FlushSpec == FlushInit /\ [][FlushNext]_vars

----------------------------------------------------------------------------
(* The seasonal tests over the calendar: one call of setAwakeAlarm or setSleepAlarm
   on any day of a leap year and of the year after it, under seasonal windows that
   start at the first of a month, on the first of January, or after their end *)

\* The windows: start day, start month, end day, end month
SeasonWindows ==
  {<<5, 2, 2, 6>>, <<1, 3, 30, 9>>, <<1, 1, 31, 3>>, <<1, 11, 28, 2>>, <<15, 12, 15, 1>>}

SeasonSettings ==
  { Settings(mode, 13, 0, 14, 0, 1, 30, 0, 15, summer, w[1], w[2], w[3], w[4]) :
      mode \in {DAILY, ROLLING}, summer \in BOOLEAN, w \in SeasonWindows }

SeasonTimes ==
  { Time(y, mo, d, h, 0) : y \in {24, 25}, mo \in 1..12, d \in 1..31, h \in {12, 15} }

SeasonInit ==
  /\ cfg \in SeasonSettings
  /\ gnssTime \in {t \in SeasonTimes : t.day <= DaysInMonth(t.month, t.year)}
  /\ rtc = [year |-> gnssTime.year, month |-> gnssTime.month, dayOfMonth |-> gnssTime.day,
            hour |-> gnssTime.hour, minute |-> gnssTime.minute, seconds |-> 0,
            alarmHour |-> gnssTime.hour, alarmMinute |-> 0,
            alarmDayOfMonth |-> gnssTime.day, alarmMonth |-> gnssTime.month,
            alarmMode |-> 4]
  /\ pc \in {"setAwakeAlarm", "setSleepAlarm"}
  /\ inSetup = FALSE
  /\ normalOperationMode = cfg.operationMode
  /\ operationMode \in {cfg.operationMode, CONTINUOUS}
  /\ intPending = FALSE
  /\ alarmFlag = (pc = "setAwakeAlarm")
  /\ alarmModeInitial = 4
  /\ alarmModeLogging = 4
  /\ alarmModeSleep = 4
  /\ dateCurrent = gnssTime.day
  /\ dateNew = gnssTime.day
  /\ firstTimeFlag = inSetup
  /\ rtcSyncFlag = TRUE
  /\ online = [microSd |-> TRUE, gnss |-> TRUE, logGnss |-> FALSE]
  /\ logFileName = <<>>
  /\ fileOpen = FALSE
  /\ avail = 0
  /\ maxFileBufferAvail = 0
  /\ remainingBytes = 0
  /\ bytesWritten = 0
  /\ syncFailCounter = 0
  /\ writeFailCounter = 0
  /\ closeFailCounter = 0
  /\ flushDue = TRUE
  /\ syncElapsed = 0
  /\ rtcDrift = 0
  /\ dayCount = 0
  /\ boot = IF inSetup THEN [time |-> Time(0, 1, 1, 0, 0), synced |-> FALSE]
            ELSE [time |-> gnssTime, synced |-> TRUE]
  /\ rxPending = 0
  /\ fixAvailable = FALSE
  /\ pvt = NoFix
  /\ syncStartDate = <<0, 0, 0>>
  /\ faults = 0
  /\ sessCommitted = 0
  /\ sessFailedWrites = 0
  /\ hwCalls = <<>>
  /\ lastCalls = <<>>

SeasonNext ==
  \/ setAwakeAlarm
  \/ setSleepAlarm

SeasonSpec == SeasonInit /\ [][SeasonNext]_vars

----------------------------------------------------------------------------
(* A Rolling device with periods below one hour: one call of setAwakeAlarm or
   setSleepAlarm at any of the times below, after which the clock runs minute by
   minute until the alarm programmed by the call is reached *)

\* The awake and the sleep period in minutes, the hours being 0
RollMinutes == {1, 15, 30, 59}

RollSettings ==
  { Settings(ROLLING, 13, 0, 14, 0, 0, am, 0, zm, FALSE, 5, 2, 2, 6) :
      am \in RollMinutes, zm \in RollMinutes }

RollTimes ==
  { [Time(25, md[1], md[2], h, mi) EXCEPT !.second = sec] :
      md \in {<<3, 2>>, <<12, 31>>}, h \in {0, 13, 23}, mi \in {0, 1, 29, 30, 45, 59},
      sec \in {0, 30} }

\* The minutes a run of the clock is followed after the call
RollHorizon == 60

RollInit ==
  /\ cfg \in RollSettings
  /\ gnssTime \in RollTimes
  /\ rtc = [year |-> gnssTime.year, month |-> gnssTime.month, dayOfMonth |-> gnssTime.day,
            hour |-> gnssTime.hour, minute |-> gnssTime.minute,
            seconds |-> gnssTime.second,
            alarmHour |-> gnssTime.hour, alarmMinute |-> gnssTime.minute,
            alarmDayOfMonth |-> gnssTime.day, alarmMonth |-> gnssTime.month,
            alarmMode |-> 5]
  /\ pc \in {"setAwakeAlarm", "setSleepAlarm"}
  /\ inSetup = FALSE
  /\ normalOperationMode = cfg.operationMode
  /\ operationMode = cfg.operationMode
  /\ intPending = FALSE
  /\ alarmFlag = (pc = "setAwakeAlarm")
  /\ alarmModeInitial = 4
  /\ alarmModeLogging = 4
  /\ alarmModeSleep = 4
  /\ dateCurrent = gnssTime.day
  /\ dateNew = gnssTime.day
  /\ firstTimeFlag = inSetup
  /\ rtcSyncFlag = TRUE
  /\ online = [microSd |-> TRUE, gnss |-> TRUE, logGnss |-> FALSE]
  /\ logFileName = <<>>
  /\ fileOpen = FALSE
  /\ avail = 0
  /\ maxFileBufferAvail = 0
  /\ remainingBytes = 0
  /\ bytesWritten = 0
  /\ syncFailCounter = 0
  /\ writeFailCounter = 0
  /\ closeFailCounter = 0
  /\ flushDue = TRUE
  /\ syncElapsed = 0
  /\ rtcDrift = 0
  /\ dayCount = 0
  /\ boot = IF inSetup THEN [time |-> Time(0, 1, 1, 0, 0), synced |-> FALSE]
            ELSE [time |-> gnssTime, synced |-> TRUE]
  /\ rxPending = 0
  /\ fixAvailable = FALSE
  /\ pvt = NoFix
  /\ syncStartDate = <<0, 0, 0>>
  /\ faults = 0
  /\ sessCommitted = 0
  /\ sessFailedWrites = 0
  /\ hwCalls = <<>>
  /\ lastCalls = <<>>

\* The clock reaches the next minute after the call; the alarm interrupt is raised when
\* the alarm programmed by the call matches
RollTick ==
  /\ pc \in {"getLogFileName", "goToSleep"}
  /\ ~intPending
  /\ ~alarmFlag
  /\ Len(hwCalls) < 3 + RollHorizon
  /\ LET n == NextSecond([Now EXCEPT !.second = 59])
     IN  /\ rtc' = SetClock(rtc, n)
         /\ gnssTime' = NextSecond([gnssTime EXCEPT !.second = 59])
         /\ intPending' = AlarmMatches(rtc, n)
         /\ hwCalls' = Append(hwCalls, IF AlarmMatches(rtc, n) THEN "alarm match"
                                       ELSE "minute")
  /\ UNCHANGED <<cfg, dayCount, alarmFlag, modes, amodes, dates, syncv, online,
                 logFileName, store, pc, inSetup, boot, lastCalls>>

RollNext ==
  \/ setAwakeAlarm
  \/ setSleepAlarm
  \/ RollTick
  \/ am_rtc_isr

RollSpec == RollInit /\ [][RollNext]_vars

----------------------------------------------------------------------------
(* setAwakeAlarm and setSleepAlarm statement by statement, with the clock running
   and the interrupt handler able to run between two statements *)

\* A Rolling device that logs for one minute and sleeps for one minute
RollingMinute == Settings(ROLLING, 13, 0, 14, 0, 0, 1, 0, 1, FALSE, 5, 2, 2, 6)

\* The calls: the function, the device, the alarm standing at the call (hour, minute,
\* mode) and the hour and minute of the clock.  setSleepAlarm after a session that the
\* alarm of this minute has ended, setAwakeAlarm in the cycle that the alarm of this
\* minute has started, a Continuous device with the 00:00 alarm of setInitialAlarm
\* standing
RaceCalls ==
  {<<"setSleepAlarm", RollingMinute, 13, 14, 5, 13, 14>>,
   <<"setSleepAlarm", RollingPlain, 1, 45, 4, 1, 45>>,
   <<"setSleepAlarm", DailyPlain, 14, 0, 4, 14, 0>>,
   <<"setSleepAlarm", ContinuousPlain, 0, 0, 4, 23, 59>>,
   <<"setAwakeAlarm", RollingMinute, 13, 15, 5, 13, 15>>,
   <<"setAwakeAlarm", RollingPlain, 0, 15, 5, 0, 15>>,
   <<"setAwakeAlarm", DailyPlain, 13, 0, 4, 13, 0>>,
   <<"setAwakeAlarm", ContinuousPlain, 0, 0, 4, 23, 59>>}

\* The second of the clock at the call
RaceSeconds == {0, 57, 58, 59}

RaceInit ==
  /\ \E c \in RaceCalls, sec \in RaceSeconds :
       LET t == [Time(25, 3, 2, c[6], c[7]) EXCEPT !.second = sec]
       IN  /\ cfg = c[2]
           /\ gnssTime = t
           /\ rtc = [year |-> t.year, month |-> t.month, dayOfMonth |-> t.day,
                     hour |-> t.hour, minute |-> t.minute, seconds |-> sec,
                     alarmHour |-> c[3], alarmMinute |-> c[4],
                     alarmDayOfMonth |-> t.day, alarmMonth |-> t.month,
                     alarmMode |-> c[5]]
           /\ logFileName = FileName(t)
           /\ pc = c[1]
           /\ alarmModeLogging = IF c[1] = "setSleepAlarm" THEN c[5] ELSE 4
           /\ alarmModeSleep = IF c[1] = "setAwakeAlarm" THEN c[5] ELSE 4
  /\ alarmFlag = TRUE
  /\ intPending = FALSE
  /\ hwCalls = <<>>
  /\ inSetup = FALSE
  /\ online = [microSd |-> TRUE, gnss |-> TRUE, logGnss |-> TRUE]
  /\ operationMode = cfg.operationMode
  /\ normalOperationMode = cfg.operationMode
  /\ alarmModeInitial = IF cfg.operationMode = ROLLING THEN 5 ELSE 4
  /\ dateCurrent = 2
  /\ dateNew = 2
  /\ firstTimeFlag = FALSE
  /\ rtcSyncFlag = TRUE
  /\ boot = [time |-> Time(25, 3, 1, 9, 0), synced |-> TRUE]
  /\ fileOpen = FALSE
  /\ avail = 0
  /\ maxFileBufferAvail = 0
  /\ remainingBytes = 0
  /\ bytesWritten = 0
  /\ syncFailCounter = 0
  /\ writeFailCounter = 0
  /\ closeFailCounter = 0
  /\ flushDue = TRUE
  /\ syncElapsed = 0
  /\ rtcDrift = 0
  /\ dayCount = 0
  /\ rxPending = 0
  /\ fixAvailable = FALSE
  /\ pvt = NoFix
  /\ syncStartDate = <<25, 3, 2>>
  /\ faults = 0
  /\ sessCommitted = 0
  /\ sessFailedWrites = 0
  /\ lastCalls = <<>>

\* The function whose statement is next, and the position of that statement
RaceFunction == IF pc \in {"setAwakeAlarm", "setAwakeAlarm:setAlarm",
                           "setAwakeAlarm:setAlarmMode", "setAwakeAlarm:alarmFlag"}
                THEN "setAwakeAlarm" ELSE "setSleepAlarm"
RaceAt(statement) == pc = RaceFunction \o statement

\* A second passes during the call; the alarm interrupt is raised when the clock
\* reaches the alarm time under the alarm mode standing at that moment
RaceTick ==
  /\ ~intPending
  /\ pc # "returned"
  /\ rtc.seconds # 0
  /\ LET n == NextSecond(Now)
         match == n.second = 0 /\ AlarmMatches(rtc, n)
     IN  /\ rtc' = SetClock(rtc, n)
         /\ gnssTime' = NextSecond(gnssTime)
         /\ intPending' = match
         /\ hwCalls' = IF match THEN Append(hwCalls, "alarm match") ELSE hwCalls
  /\ UNCHANGED <<cfg, dayCount, alarmFlag, modes, amodes, dates, syncv, online,
                 logFileName, store, pc, inSetup, boot, lastCalls>>

\* am_hal_rtc_int_clear(AM_HAL_RTC_INT_ALM)
alarm_int_clear ==
  /\ pc \in {"setAwakeAlarm", "setSleepAlarm"}
  /\ ~intPending
  /\ intPending' = FALSE
  /\ hwCalls' = <<"int_clear">>
  /\ pc' = RaceFunction \o ":setAlarm"
  /\ UNCHANGED <<cfg, rtc, envv, alarmFlag, modes, amodes, dates, syncv, online,
                 logFileName, store, inSetup, boot, lastCalls>>

\* checkOperationMode() and the switch: rtc.setAlarm with the new time, or the return
\* of setAwakeAlarm on the last day before the seasonal window
alarm_setAlarm ==
  /\ RaceAt(":setAlarm")
  /\ ~intPending
  /\ LET mode == checkOperationMode(Now, normalOperationMode)
         awake == RaceFunction = "setAwakeAlarm"
     IN  /\ operationMode' = mode
         /\ IF awake /\ mode = DAILY /\ LastDayLoggingFinished(Now)
              THEN /\ pc' = "returned"
                   /\ UNCHANGED <<rtc, amodes, hwCalls>>
            ELSE IF mode = CONTINUOUS
              THEN /\ pc' = RaceFunction \o ":setAlarmMode"
                   /\ UNCHANGED <<rtc, amodes, hwCalls>>
            ELSE /\ rtc' = Program(rtc, IF awake THEN awakeAlarm(Now, mode)
                                        ELSE sleepAlarm(Now, mode))
                 /\ alarmModeLogging' = IF awake THEN awakeAlarmMode(mode)
                                        ELSE alarmModeLogging
                 /\ alarmModeSleep' = IF awake THEN alarmModeSleep
                                      ELSE sleepAlarmMode(mode)
                 /\ hwCalls' = Append(hwCalls, "setAlarm")
                 /\ pc' = RaceFunction \o ":setAlarmMode"
                 /\ UNCHANGED alarmModeInitial
  /\ UNCHANGED <<cfg, envv, irq, normalOperationMode, dates, syncv, online,
                 logFileName, store, inSetup, boot, lastCalls>>

\* rtc.setAlarmMode(alarmModeLogging), rtc.setAlarmMode(alarmModeSleep)
alarm_setAlarmMode ==
  /\ RaceAt(":setAlarmMode")
  /\ ~intPending
  /\ rtc' = SetAlarmMode(rtc, IF RaceFunction = "setAwakeAlarm" THEN alarmModeLogging
                              ELSE alarmModeSleep)
  /\ hwCalls' = Append(hwCalls, "setAlarmMode")
  /\ pc' = RaceFunction \o ":alarmFlag"
  /\ UNCHANGED <<cfg, envv, irq, modes, amodes, dates, syncv, online,
                 logFileName, store, inSetup, boot, lastCalls>>

\* alarmFlag = false, at the end of the function
alarm_clearFlag ==
  /\ RaceAt(":alarmFlag")
  /\ ~intPending
  /\ alarmFlag' = FALSE
  /\ pc' = "returned"
  /\ UNCHANGED <<cfg, rtc, envv, intPending, modes, amodes, dates, syncv, online,
                 logFileName, store, inSetup, boot, hwCalls, lastCalls>>

RaceNext ==
  \/ RaceTick
  \/ am_rtc_isr
  \/ alarm_int_clear
  \/ alarm_setAlarm
  \/ alarm_setAlarmMode
  \/ alarm_clearFlag

RaceSpec == RaceInit /\ [][RaceNext]_vars

----------------------------------------------------------------------------
(* Properties of the log session counters *)

\* C1: while a log file is open, bytesWritten is 512 times the number of full-block
\* writes that succeeded plus the bytes of the final drain: a failed block write adds
\* nothing to it.
C1_BytesWrittenCountsSuccessfulWrites ==
  fileOpen => bytesWritten = sessCommitted

\* C2: every step of logGnss that opens the log file leaves all four session
\* counters at zero.
C2_CountersResetAtSessionStart ==
  [][(pc = "logGnss" /\ fileOpen') =>
       (bytesWritten' = 0 /\ writeFailCounter' = 0 /\ syncFailCounter' = 0
        /\ closeFailCounter' = 0)]_vars

\* C3: while a log file is open, every step raises writeFailCounter by exactly the
\* number of write calls that failed in it, in the logging loop and in the final drain.
C3_WriteFailCountsEveryFailedWrite ==
  [][(fileOpen /\ fileOpen') =>
       (writeFailCounter' - writeFailCounter = sessFailedWrites' - sessFailedWrites)]_vars

----------------------------------------------------------------------------
(* Properties of the operation mode *)

\* A step of setInitialAlarm, setAwakeAlarm or setSleepAlarm
SchedulerStep == pc \in {"setInitialAlarm", "setAwakeAlarm", "setSleepAlarm"} /\ pc' # pc

\* The month-and-day window test of the seasonal override, ends inclusive
InSeasonalWindow(month, day) ==
  /\ cfg.alarmSummerStartMonth * 100 + cfg.alarmSummerStartDay <= month * 100 + day
  /\ month * 100 + day <= cfg.alarmSummerEndMonth * 100 + cfg.alarmSummerEndDay

\* C4: every call of checkOperationMode sets operationMode to CONTINUOUS when
\* summerMode is set and the month and day lie in the window, ends included, and to
\* normalOperationMode otherwise; the result depends on nothing else, so a call with
\* unchanged inputs leaves operationMode as it is. With window Feb 5 .. Jun 2 and the
\* flag on, Mar 1 gives CONTINUOUS and Jan 1 gives normalOperationMode.
C4_CheckOperationModeIsWindowTest ==
  [][SchedulerStep =>
       LET expected == IF cfg.summerMode /\ InSeasonalWindow(rtc.month, rtc.dayOfMonth)
                         THEN CONTINUOUS ELSE normalOperationMode'
           chosen == cfg.summerMode /\ cfg.alarmSummerStartMonth = 2
                     /\ cfg.alarmSummerStartDay = 5 /\ cfg.alarmSummerEndMonth = 6
                     /\ cfg.alarmSummerEndDay = 2
       IN  /\ operationMode' = expected
           /\ (operationMode = expected => operationMode' = operationMode)
           /\ (chosen /\ rtc.month = 3 /\ rtc.dayOfMonth = 1
                 => operationMode' = CONTINUOUS)
           /\ (chosen /\ rtc.month = 1 /\ rtc.dayOfMonth = 1
                 => operationMode' = normalOperationMode')]_vars

\* C4 witness: a call on Mar 1 with the flag on and window Feb 5 .. Jun 2 has
\* overridden a Daily device to CONTINUOUS.
C4_Witness ==
  /\ pc = "getLogFileName"
  /\ cfg.summerMode /\ cfg.alarmSummerStartMonth = 2 /\ cfg.alarmSummerStartDay = 5
  /\ cfg.alarmSummerEndMonth = 6 /\ cfg.alarmSummerEndDay = 2
  /\ rtc.month = 3 /\ rtc.dayOfMonth = 1
  /\ normalOperationMode = DAILY
  /\ operationMode = CONTINUOUS

\* C5: once setInitialAlarm has run, normalOperationMode is the configured mode and no
\* step changes it, and operationMode is normalOperationMode or CONTINUOUS.
C5_NormalModeKept ==
  /\ [](~inSetup => /\ normalOperationMode = cfg.operationMode
                    /\ operationMode \in {normalOperationMode, CONTINUOUS})
  /\ [][~inSetup => normalOperationMode' = normalOperationMode]_vars

\* C5 witness: a Daily device asleep inside the seasonal window, overridden to
\* CONTINUOUS by setSleepAlarm, with normalOperationMode still DAILY.
C5_Witness ==
  /\ pc = "sleep"
  /\ cfg.operationMode = DAILY
  /\ cfg.summerMode /\ InSeasonalWindow(rtc.month, rtc.dayOfMonth)
  /\ operationMode = CONTINUOUS
  /\ normalOperationMode = DAILY
  /\ logFileName # <<>>

----------------------------------------------------------------------------
(* Properties of the alarms *)

\* C6: in Rolling mode setAwakeAlarm programs hour (now.hour + alarmAwakeHours) mod 24
\* and minute (now.minute + alarmAwakeMinutes) mod 60, and setSleepAlarm the same with
\* the sleep durations, with no carry from the minute into the hour; from 23:45 with
\* 1 h 30 min awake the alarm is 00:15.
C6_RollingAlarmWrapsFieldsSeparately ==
  [][(SchedulerStep /\ operationMode' = ROLLING) =>
       /\ (pc = "setAwakeAlarm" =>
             /\ rtc'.alarmHour = (rtc.hour + cfg.alarmAwakeHours) % 24
             /\ rtc'.alarmMinute = (rtc.minute + cfg.alarmAwakeMinutes) % 60
             /\ (rtc.hour = 23 /\ rtc.minute = 45 /\ cfg.alarmAwakeHours = 1
                 /\ cfg.alarmAwakeMinutes = 30
                   => rtc'.alarmHour = 0 /\ rtc'.alarmMinute = 15))
       /\ (pc = "setSleepAlarm" =>
             /\ rtc'.alarmHour = (rtc.hour + cfg.alarmSleepHours) % 24
             /\ rtc'.alarmMinute = (rtc.minute + cfg.alarmSleepMinutes) % 60)]_vars

\* C6 witness: setAwakeAlarm has run at 23:45 in Rolling mode with 1 h 30 min awake and
\* the alarm stands at 00:15.
C6_Witness ==
  /\ pc = "getLogFileName"
  /\ operationMode = ROLLING
  /\ cfg.alarmAwakeHours = 1 /\ cfg.alarmAwakeMinutes = 30
  /\ rtc.hour = 23 /\ rtc.minute = 45
  /\ rtc.alarmHour = 0 /\ rtc.alarmMinute = 15

\* Minutes of the clock's time of day
TimeOfDay == rtc.hour * 60 + rtc.minute

\* C7: on a Daily device with start 13:00, stop 14:00 and no seasonal override, a log
\* file is open only while the 14:00 alarm stands, and the device sleeps only with the
\* file closed and the 13:00 alarm standing. When it booted before 13:00 with its
\* clock set from the receiver: until 13:00 of the boot day no session has been
\* started; on the boot day and on each later day a log file is open only from 13:00
\* to 14:00, and with healthy storage the device is logging, not asleep, in between.
C7_DailySessionBetweenAlarms ==
  (/\ ~inSetup
   /\ cfg.operationMode = DAILY /\ ~cfg.summerMode
   /\ cfg.alarmStartHour = 13 /\ cfg.alarmStartMinute = 0
   /\ cfg.alarmStopHour = 14 /\ cfg.alarmStopMinute = 0)
  =>
  /\ (fileOpen => rtc.alarmHour = 14 /\ rtc.alarmMinute = 0 /\ rtc.alarmMode = 4)
  /\ (pc = "sleep" /\ ~alarmFlag /\ ~intPending =>
        ~fileOpen /\ rtc.alarmHour = 13 /\ rtc.alarmMinute = 0 /\ rtc.alarmMode = 4)
  /\ (boot.synced /\ boot.time.hour < 13 =>
        /\ (rtc.dayOfMonth = boot.time.day /\ TimeOfDay < 13 * 60 =>
              /\ pc \in {"loop", "goToSleep", "sleep"} /\ ~fileOpen /\ ~alarmFlag
              /\ rtc.alarmHour = 13 /\ rtc.alarmMinute = 0 /\ rtc.alarmMode = 4)
        /\ (fileOpen => 13 * 60 <= TimeOfDay /\ TimeOfDay <= 14 * 60)
        /\ (13 * 60 < TimeOfDay /\ TimeOfDay < 14 * 60 /\ faults = 0 =>
              fileOpen \/ pc = "syncPoll")
        /\ (pc = "sleep" /\ ~alarmFlag /\ ~intPending /\ faults = 0 =>
              TimeOfDay < 13 * 60 \/ TimeOfDay >= 14 * 60))

\* C7 witness: the session of the day after the boot day, logging at 13:30.
C7_Witness ==
  /\ cfg.operationMode = DAILY /\ ~cfg.summerMode
  /\ cfg.alarmStartHour = 13 /\ cfg.alarmStopHour = 14
  /\ boot.synced /\ boot.time.hour < 13
  /\ rtc.dayOfMonth = boot.time.day + 1
  /\ rtc.hour = 13 /\ rtc.minute = 30
  /\ pc = "logLoop" /\ fileOpen
  /\ bytesWritten > 0

\* C8: in Continuous mode with healthy storage the device is never asleep waiting for
\* a further alarm: after a session ended by the alarm flag the next one starts on the
\* next pass of loop.
C8_ContinuousNeverWaitsForAnAlarm ==
  ~(/\ ~inSetup
    /\ operationMode = CONTINUOUS
    /\ faults = 0
    /\ pc = "sleep" /\ ~alarmFlag /\ ~intPending)

\* Tomorrow is the first day of the seasonal window
DayBeforeWindow ==
  IF rtc.dayOfMonth < DaysInMonth(rtc.month, rtc.year)
    THEN cfg.alarmSummerStartMonth = rtc.month
         /\ cfg.alarmSummerStartDay = rtc.dayOfMonth + 1
    ELSE cfg.alarmSummerStartMonth = (rtc.month % 12) + 1 /\ cfg.alarmSummerStartDay = 1

\* The day before the window with the Daily stop time reached
StopTimePassedBeforeWindow ==
  /\ cfg.summerMode
  /\ DayBeforeWindow
  /\ TimeOfDay >= cfg.alarmStopHour * 60 + cfg.alarmStopMinute

\* C9: setSleepAlarm in Daily mode programs 00:00 on the seasonal start date when the
\* override is enabled, tomorrow is the start date and the stop time has been reached,
\* and alarmStartHour:alarmStartMinute in every other case.
C9_DailySleepAlarmTarget ==
  [][(pc = "setSleepAlarm" /\ pc' # pc /\ operationMode' = DAILY) =>
       IF StopTimePassedBeforeWindow
         THEN /\ rtc'.alarmHour = 0 /\ rtc'.alarmMinute = 0
              /\ rtc'.alarmDayOfMonth = cfg.alarmSummerStartDay
              /\ rtc'.alarmMonth = cfg.alarmSummerStartMonth
         ELSE /\ rtc'.alarmHour = cfg.alarmStartHour
              /\ rtc'.alarmMinute = cfg.alarmStartMinute]_vars

\* C10: in Daily mode on the day before the window, once the stop time has passed,
\* setAwakeAlarm leaves the alarm time and the alarm mode alone, and the only step that
\* programs an alarm is setSleepAlarm's, for 00:00 on the seasonal start date.
C10_NoAwakeAlarmBeforeWindow ==
  [][(~inSetup /\ normalOperationMode = DAILY /\ StopTimePassedBeforeWindow) =>
       /\ (pc = "setAwakeAlarm" /\ pc' # pc =>
             rtc' = rtc /\ alarmModeLogging' = alarmModeLogging)
       /\ (rtc' # rtc /\ rtc'.hour = rtc.hour /\ rtc'.minute = rtc.minute =>
             /\ pc = "setSleepAlarm"
             /\ rtc'.alarmHour = 0 /\ rtc'.alarmMinute = 0
             /\ rtc'.alarmDayOfMonth = cfg.alarmSummerStartDay
             /\ rtc'.alarmMonth = cfg.alarmSummerStartMonth)]_vars

----------------------------------------------------------------------------
(* Properties of the initial alarm *)

\* C11: setInitialAlarm uses the mode derived by checkOperationMode in the same call:
\* when that mode is Daily it programs alarmStartHour:alarmStartMinute with alarm
\* mode 4 (match every day), when it is Rolling it programs minute 0 with alarm mode 5
\* (match every hour).
C11_InitialAlarmByEffectiveMode ==
  [][(pc = "setInitialAlarm" /\ pc' # pc) =>
       LET mode == IF cfg.summerMode /\ InSeasonalWindow(rtc.month, rtc.dayOfMonth)
                     THEN CONTINUOUS ELSE cfg.operationMode
       IN  /\ operationMode' = mode
           /\ (mode = DAILY =>
                 /\ rtc'.alarmHour = cfg.alarmStartHour
                 /\ rtc'.alarmMinute = cfg.alarmStartMinute
                 /\ rtc'.alarmMode = 4 /\ alarmModeInitial' = 4)
           /\ (mode = ROLLING =>
                 /\ rtc'.alarmMinute = 0
                 /\ rtc'.alarmMode = 5 /\ alarmModeInitial' = 5)]_vars

\* C11 witness: a Rolling device with the seasonal flag on, booted outside the window,
\* stands after setInitialAlarm with minute 0 programmed under alarm mode 5.
C11_Witness ==
  /\ pc = "loop" /\ ~inSetup
  /\ cfg.operationMode = ROLLING /\ cfg.summerMode
  /\ ~InSeasonalWindow(rtc.month, rtc.dayOfMonth)
  /\ operationMode = ROLLING
  /\ rtc.alarmMinute = 0 /\ rtc.alarmMode = 5 /\ alarmModeInitial = 5

\* The alarm registers of the clock: the alarm time and the alarm mode
AlarmRegisters(r) ==
  <<r.alarmHour, r.alarmMinute, r.alarmDayOfMonth, r.alarmMonth, r.alarmMode>>

\* C12: when the mode derived at boot is Continuous, setInitialAlarm sets alarmFlag and
\* programs no hardware alarm: the alarm time and the alarm mode of the clock are
\* after the call what they were before it.
C12_ContinuousBootProgramsNoAlarm ==
  [][(pc = "setInitialAlarm" /\ pc' # pc /\ operationMode' = CONTINUOUS) =>
       /\ alarmFlag'
       /\ AlarmRegisters(rtc') = AlarmRegisters(rtc)]_vars

----------------------------------------------------------------------------
(* Properties of the scheduler's use of the alarm hardware *)

\* C13: when the mode it derives is Continuous, setAwakeAlarm leaves the alarm time
\* and the alarm mode of the clock as they were, whichever call programmed them.
C13_ContinuousAwakeAlarmKeepsHardware ==
  [][(pc = "setAwakeAlarm" /\ pc' # pc /\ operationMode' = CONTINUOUS) =>
       AlarmRegisters(rtc') = AlarmRegisters(rtc)]_vars

\* In a sequence of hardware calls the interrupt is cleared, and no alarm time or
\* alarm mode is programmed before the clearing
ClearsBeforeProgramming(calls) ==
  /\ \E i \in 1..Len(calls) : calls[i] = "int_clear"
  /\ \A i, j \in 1..Len(calls) :
       (calls[i] = "int_clear" /\ calls[j] \in {"setAlarm", "setAlarmMode"}) => i < j

\* C14: each of setInitialAlarm, setAwakeAlarm and setSleepAlarm clears the pending
\* alarm interrupt before it programs the alarm time or the alarm mode.
C14_InterruptClearedBeforeProgramming ==
  [][SchedulerStep => ClearsBeforeProgramming(hwCalls')]_vars

----------------------------------------------------------------------------
(* Properties of the daily clock synchronisation *)

\* C16: in every alarm cycle whose calendar day differs from the day the previous
\* cycle read off the clock in its last checkDate, loop() goes on to syncRtc before
\* logGnss.
C16_DayChangeAlwaysSyncs ==
  [][(pc = "checkDate" /\ pc' # pc /\ rtc.dayOfMonth # dateNew) => pc' = "syncRtc"]_vars

----------------------------------------------------------------------------
(* Properties of the alarm cycle of loop() *)

\* C15: a pass of loop() that handles an alarm runs its phases one after the other in
\* this order: setAwakeAlarm, getLogFileName, the date check, syncRtc exactly when a
\* new calendar day has begun since the previous cycle, logGnss until the alarm flag
\* is set, setSleepAlarm, and only then goToSleep.
C15_CyclePhasesInOrder ==
  [][/\ (pc = "setAwakeAlarm" /\ pc' # pc => pc' = "getLogFileName")
     /\ (pc = "getLogFileName" /\ pc' # pc => pc' = "checkDate")
     /\ (pc = "checkDate" /\ pc' # pc =>
           pc' = IF rtc.dayOfMonth # dateNew THEN "syncRtc" ELSE "logGnss")
     /\ (pc \in {"syncRtc", "syncPoll"} /\ ~inSetup /\ pc' # pc =>
           pc' \in {"syncPoll", "loop_afterSync"})
     /\ (pc = "loop_afterSync" /\ pc' # pc => pc' = "logGnss")
     /\ (pc = "logLoop" /\ pc' = "logDrain" => alarmFlag)
     /\ (pc' = "setSleepAlarm" /\ pc' # pc => pc \in {"logGnss", "logClose"})
     /\ (pc = "setSleepAlarm" /\ pc' # pc => pc' = "goToSleep")
     /\ (pc' = "sleep" /\ pc' # pc => pc = "goToSleep")]_vars

----------------------------------------------------------------------------
(* Properties of syncRtc *)

\* A step of the program inside the poll loop of syncRtc (the clock does not tick)
PollStep == pc = "syncPoll" /\ gnssTime' = gnssTime

\* The calendar fields of the clock
ClockFields(r) == <<r.year, r.month, r.dayOfMonth, r.hour, r.minute, r.seconds>>

\* C17: in the poll loop of syncRtc the clock is set only in a pass that read a message
\* with fix type 3 and both the date and the time confirmed, and then to the
\* receiver's time; that pass ends the polling, so the clock is set at most once per
\* call; the first such message is accepted; a pass that read a message failing one
\* of the three conditions leaves the clock, rtcDrift, rtcSyncFlag and logFileName
\* as they were.
C17_ClockSetOnlyFromValid3DFix ==
  [][PollStep =>
       LET valid == pvt'.fixType = 3 /\ pvt'.dateValid /\ pvt'.timeValid
       IN  /\ (ClockFields(rtc') # ClockFields(rtc) \/ rtcSyncFlag' =>
                 /\ valid
                 /\ ClockFields(rtc') = <<gnssTime.year, gnssTime.month, gnssTime.day,
                                          gnssTime.hour, gnssTime.minute, gnssTime.second>>
                 /\ rtcSyncFlag' /\ pc' # "syncPoll")
           /\ (valid => rtcSyncFlag' /\ pc' # "syncPoll")
           /\ (~valid =>
                 /\ rtc' = rtc /\ rtcDrift' = rtcDrift /\ logFileName' = logFileName
                 /\ ~rtcSyncFlag')]_vars

\* C17 witness: syncRtc has just accepted a message with fix type 3 and both flags
\* confirmed in a cycle of loop(), after an unsynchronised boot, and the clock shows
\* the receiver's time.
C17_Witness ==
  /\ pc = "loop_afterSync"
  /\ rtcSyncFlag /\ ~boot.synced
  /\ pvt.fixType = 3 /\ pvt.dateValid /\ pvt.timeValid
  /\ Now = gnssTime
  /\ rtcDrift # 0

\* A step inside a call of syncRtc
InSyncRtc == pc \in {"syncRtc", "syncPoll"}

\* C18: the pass of the poll loop that accepts a fix records drift = fix time - clock
\* time; if |drift| > 30 s it sets logFileName to the name made from the clock as set
\* to the fix time, and if |drift| <= 30 s, 30 included, it leaves logFileName as
\* generated earlier; no other step of the call changes logFileName, so the name is
\* regenerated at most once.
C18_FileNameRegeneratedOnLargeDrift ==
  [][InSyncRtc =>
       IF PollStep /\ rtcSyncFlag'
         THEN LET drift == EpochSeconds(gnssTime) - EpochSeconds(Now)
              IN  /\ rtcDrift' = drift
                  /\ pc' \notin {"syncRtc", "syncPoll"}
                  /\ IF drift > 30 \/ drift < -30
                       THEN logFileName' = <<rtc'.year, rtc'.month, rtc'.dayOfMonth,
                                             rtc'.hour, rtc'.minute, rtc'.seconds>>
                       ELSE logFileName' = logFileName
         ELSE logFileName' = logFileName]_vars

\* C18 witness: in a cycle of loop() syncRtc has accepted a fix 30 seconds ahead of
\* the clock and the file name is still the one made from the clock before the sync.
C18_Witness ==
  /\ pc = "loop_afterSync"
  /\ rtcSyncFlag /\ rtcDrift = 30
  /\ Now = gnssTime
  /\ logFileName # <<>> /\ logFileName # FileName(Now)

\* The date of the clock
Today == <<rtc.year, rtc.month, rtc.dayOfMonth>>

\* C19: a call of syncRtc that accepts no fix, because the poll loop times out or the
\* receiver is offline, changes neither rtcDrift nor logFileName in any of its steps,
\* lets the clock only run on, and returns with rtcSyncFlag false; loop() then goes on
\* to logGnss, and after a failed sync it calls syncRtc again only on a date of the
\* clock other than the date on which the failed call began.
C19_FailedSyncLeavesStateAndWaitsForNextDay ==
  [][/\ (InSyncRtc /\ ~rtcSyncFlag' =>
           /\ rtcDrift' = rtcDrift
           /\ logFileName' = logFileName
           /\ (gnssTime' = gnssTime => ClockFields(rtc') = ClockFields(rtc)))
     /\ (InSyncRtc /\ pc' \notin {"syncRtc", "syncPoll"}
         /\ ~(pvt'.fixType = 3 /\ pvt'.dateValid /\ pvt'.timeValid) => ~rtcSyncFlag')
     /\ (pc = "syncRtc" /\ ~online.gnss => ~rtcSyncFlag' /\ pc' # "syncPoll")
     /\ (pc = "loop_afterSync" /\ pc' # pc => pc' = "logGnss")
     /\ (pc = "checkDate" /\ pc' = "syncRtc" /\ ~rtcSyncFlag => Today # syncStartDate)]_vars

\* C19 witness: a cycle of loop() that starts on the date on which an earlier cycle's
\* syncRtc timed out, and goes to logGnss without a new attempt.
C19_Witness ==
  /\ pc = "logGnss" /\ ~inSetup
  /\ ~rtcSyncFlag /\ ~SyncWithinTimeout
  /\ syncStartDate = Today
  /\ logFileName = FileName(Now)

\* C20: once gnssTimeout = 300 seconds have passed in the poll loop of syncRtc without
\* an accepted fix, the loop condition ends the polling: no further pass reads the
\* receiver and the program waits no longer in the loop.
C20_PollingStopsAfterGnssTimeoutSeconds ==
  [][(pc = "syncPoll" /\ syncElapsed * 60 >= gnssTimeout) =>
       /\ (pc' = "syncPoll" => gnssTime' = gnssTime /\ pvt' = pvt)
       /\ ~rtcSyncFlag']_vars

\* C21: the pass of the poll loop that accepts a fix records in rtcDrift the signed
\* number of seconds fix time - clock time, the clock time being the one read before
\* that pass sets the clock: negative when the clock was ahead of the fix, positive
\* when it was behind, zero when they agreed.
C21_DriftIsSignedFixMinusClock ==
  [][(PollStep /\ rtcSyncFlag') =>
       /\ rtcDrift' = UnixEpoch(gnssTime) - UnixEpoch(Now)
       /\ (rtcDrift' < 0) = (UnixEpoch(Now) > UnixEpoch(gnssTime))
       /\ ClockFields(rtc') = ClockFields(SetClock(rtc, gnssTime))]_vars

\* A sync has been accepted while the clock was 31 s ahead of the fix
C21_Witness ==
  /\ rtcSyncFlag
  /\ pc \notin {"syncRtc", "syncPoll"}
  /\ rtcDrift = -31

\* A step taken by the main program, not by the passing of time or the interrupt handler
ProgramStep == ~intPending /\ gnssTime' = gnssTime

\* The program is at the top of a loop whose condition holds, so its next step is one
\* iteration of the poll loop of syncRtc, of the logging loop, of the loop that writes
\* whole blocks or of the loop that writes the remaining bytes
AtLoopIteration ==
  \/ pc = "syncPoll" /\ ~rtcSyncFlag /\ SyncWithinTimeout
  \/ pc = "logLoop" /\ ~alarmFlag
  \/ pc = "logBlock" /\ avail >= sdWriteSize
  \/ pc = "logDrain" /\ remainingBytes > 0

\* C22: every iteration of the poll loop of syncRtc, of the logging loop of logGnss, of
\* its inner loop that writes whole blocks and of its final loop that writes the
\* remaining bytes calls petDog, and calls it before any call to the receiver, the
\* clock or the log file.
C22_EveryLoopIterationPetsTheDogFirst ==
  [][(ProgramStep /\ AtLoopIteration) =>
       /\ lastCalls' # <<>>
       /\ lastCalls'[1] = "petDog"]_vars

\* An iteration of the final loop has just written the last bytes of the buffer
C22_Witness ==
  /\ pc = "logDrain"
  /\ remainingBytes = 0
  /\ lastCalls = <<"petDog", "logFile.write">>

\* The program is inside the logging loop of logGnss
InLoggingLoop == pc \in {"logLoop", "logBlock", "logFlush"}

\* C23: once alarmFlag is set while a session is active, logGnss leaves the logging
\* loop, writes the remaining bytes, syncs, closes and returns. The loop is left only
\* from the test at the top of an outer iteration and only with alarmFlag set: a step
\* that writes a block or syncs stays in the loop, so a write that has started is
\* finished, with or without success, before the session ends.
C23_AlarmFlagEndsTheSession ==
  /\ [][(ProgramStep /\ InLoggingLoop /\ pc' \notin {"logLoop", "logBlock", "logFlush"}) =>
          /\ pc = "logLoop" /\ alarmFlag
          /\ pc' = "logDrain"]_vars
  /\ (fileOpen /\ alarmFlag) ~> (pc = "setSleepAlarm" /\ ~fileOpen
                                   /\ lastCalls = <<"logFile.close">>)

\* The alarm was raised during a session in which blocks had been written, and
\* logGnss has returned
C23_Witness ==
  /\ pc = "setSleepAlarm"
  /\ alarmFlag /\ ~fileOpen
  /\ lastCalls = <<"logFile.close">>
  /\ bytesWritten > sdWriteSize

\* The positions of logGnss after a successful open: the loops, the final sync, the close
SessionPcs == {"logLoop", "logBlock", "logFlush", "logDrain", "logSync", "logClose"}

\* C24: the log file is open exactly while logGnss is between a successful open and
\* its close: it is closed at every call of logGnss and at every return, so it is
\* never opened while open and is closed before the return whenever the open
\* succeeded; logFile.open is called only by the first step of the call; and after an
\* open that failed logGnss has returned without a write, a sync or a close.
C24_LogFileOpenOnlyInsideSession ==
  /\ fileOpen <=> pc \in SessionPcs
  /\ "logFile.open" \in {lastCalls[i] : i \in 1..Len(lastCalls)} =>
       /\ lastCalls = <<"logFile.open">>
       /\ IF fileOpen THEN pc = "logLoop" ELSE pc = "setSleepAlarm"

\* A later session of a run has opened its file: bytes of an earlier session are counted
C24_Witness ==
  /\ pc = "logLoop" /\ fileOpen
  /\ lastCalls = <<"logFile.open">>
  /\ bytesWritten > 0

\* C25: when the logging loop is left, fewer than sdWriteSize bytes remain in the
\* buffer; if any remain, one iteration of the final loop writes all of them with one
\* write call and leaves none; then the final sync is called, then close, and no
\* write is called after the final sync.
C25_FinalWriteThenSyncThenClose ==
  [][ProgramStep =>
       /\ (pc = "logLoop" /\ pc' = "logDrain" => remainingBytes' < sdWriteSize)
       /\ (pc = "logDrain" /\ remainingBytes > 0 =>
             /\ lastCalls' = <<"petDog", "logFile.write">>
             /\ bytesWritten' = bytesWritten + remainingBytes
             /\ remainingBytes' = 0
             /\ pc' = "logDrain")
       /\ (pc = "logDrain" /\ remainingBytes = 0 => pc' = "logSync" /\ lastCalls' = <<>>)
       /\ (pc = "logSync" => pc' = "logClose" /\ lastCalls' = <<"logFile.sync">>)
       /\ (pc = "logClose" => pc' = "setSleepAlarm" /\ lastCalls' = <<"logFile.close">>)]_vars

\* The final sync has been called after whole blocks and a last write of less than a block
C25_Witness ==
  /\ pc = "logClose"
  /\ lastCalls = <<"logFile.sync">>
  /\ bytesWritten > sdWriteSize
  /\ bytesWritten % sdWriteSize # 0

\* C26: while the log file is open, from the open to the close, no step changes
\* logFileName, and the program is neither in getLogFileName nor in syncRtc: the
\* clock is not synchronised and rtcDrift and rtcSyncFlag keep their values.
C26_FileNameFixedWhileOpen ==
  [][fileOpen =>
       /\ logFileName' = logFileName
       /\ <<rtcSyncFlag', rtcDrift'>> = <<rtcSyncFlag, rtcDrift>>
       /\ pc \notin {"getLogFileName", "syncRtc", "syncPoll"}
       /\ pc' \notin {"getLogFileName", "syncRtc", "syncPoll"}]_vars

\* A session is writing blocks after its clock has moved on from the time in the name
C26_Witness ==
  /\ fileOpen /\ pc = "logBlock"
  /\ bytesWritten > 0
  /\ <<rtc.hour, rtc.minute>> # <<logFileName[4], logFileName[5]>>

\* C27: no step of syncRtc, on the path with the receiver online (fix accepted, fix
\* rejected, timeout) or offline, changes the alarm time and alarm mode programmed in
\* the clock, alarmFlag, operationMode, normalOperationMode, the open state of the
\* log file or bytesWritten, writeFailCounter, syncFailCounter, closeFailCounter; of
\* the program's variables it changes only the clock, rtcDrift, rtcSyncFlag and
\* logFileName.
C27_SyncRtcFrame ==
  [][(ProgramStep /\ InSyncRtc) =>
       /\ AlarmRegisters(rtc') = AlarmRegisters(rtc)
       /\ alarmFlag' = alarmFlag
       /\ UNCHANGED <<modes, fileOpen, counters>>
       /\ UNCHANGED <<amodes, dates, online, bufv, flushDue>>]_vars

\* syncRtc has set the clock of a device whose stop alarm is programmed
C27_Witness ==
  /\ pc = "loop_afterSync"
  /\ rtcSyncFlag /\ rtcDrift # 0
  /\ rtc.alarmMode = 4 /\ rtc.alarmHour = 1 /\ rtc.alarmMinute = 45

\* C28: a periodic sync and the final sync each add one to syncFailCounter when the
\* call fails and nothing when it succeeds, and the close adds one to closeFailCounter
\* when it fails and nothing when it succeeds; after a failed sync or close the
\* session goes on as after a successful one, to the next pass of the logging loop,
\* to the close, or to the return, so the call is not repeated; no other step of an
\* open session changes either counter.
C28_SyncAndCloseFailuresCounted ==
  [][(ProgramStep /\ pc \in SessionPcs) =>
       LET failed == IF faults' > faults THEN 1 ELSE 0
       IN  IF pc = "logFlush" /\ flushDue
             THEN /\ syncFailCounter' = syncFailCounter + failed
                  /\ closeFailCounter' = closeFailCounter
                  /\ pc' = "logLoop" /\ fileOpen'
           ELSE IF pc = "logSync"
             THEN /\ syncFailCounter' = syncFailCounter + failed
                  /\ closeFailCounter' = closeFailCounter
                  /\ pc' = "logClose" /\ fileOpen'
           ELSE IF pc = "logClose"
             THEN /\ closeFailCounter' = closeFailCounter + failed
                  /\ syncFailCounter' = syncFailCounter
                  /\ pc' = "setSleepAlarm"
           ELSE /\ syncFailCounter' = syncFailCounter
                /\ closeFailCounter' = closeFailCounter]_vars

\* A periodic sync has failed and the session has written a block since
C28_Witness ==
  /\ fileOpen /\ pc = "logBlock"
  /\ syncFailCounter = 1 /\ faults = 1
  /\ lastCalls = <<"petDog", "logFile.write", "gnss.checkUblox">>

\* The warning about the buffer is among the things a step did
BufferWarned(done) ==
  \E i \in 1..Len(done) : done[i] = "DEBUG_PRINTLN(Warning: File buffer >80 % full)"

\* C29: at a flush boundary the warning about the buffer is printed if and only if the
\* high-water mark sampled there exceeds 80 % of fileBufferSize, that is, is above
\* 13107 of 16384 bytes; the step changes neither the buffer level nor the mark.
C29_WarningIffAboveFourFifths ==
  [][(ProgramStep /\ pc = "logFlush" /\ flushDue) =>
       /\ BufferWarned(lastCalls') = (maxFileBufferAvail * 5 > fileBufferSize * 4)
       /\ UNCHANGED <<avail, maxFileBufferAvail>>]_vars

\* C30: when gnss.begin fails at power-up, configureGnss does not return: the program
\* stays in its endless loop, whose passes never call petDog; setup() has not reached
\* syncRtc or setInitialAlarm, so no call has been made to the alarm hardware, the alarm
\* registers and the alarm flag are as at power-up, no sync has been started, no file
\* name has been made and no log file has been opened or written.
C30_ReceiverFailureHaltsBeforeAlarmAndSession ==
  (pc # "setup" /\ inSetup /\ ~online.gnss) =>
     /\ pc = "halt"
     /\ lastCalls \in {<<>>, <<"blinkLed", "myDelay">>}
     /\ hwCalls = <<>> /\ AlarmRegisters(rtc) = <<0, 0, 0, 0, 0>>
     /\ ~alarmFlag /\ ~intPending
     /\ ~rtcSyncFlag /\ syncStartDate = <<0, 0, 0>> /\ rtcDrift = 0
     /\ logFileName = <<>> /\ ~fileOpen /\ ~online.logGnss
     /\ bytesWritten = 0

\* The program has made a pass of the endless loop of configureGnss
C30_Witness ==
  /\ pc = "halt"
  /\ ~online.gnss
  /\ lastCalls = <<"blinkLed", "myDelay">>

\* The order of two unsigned long values given by their 32 bits
UnsignedLeq(a, b) == IF (a < 0) = (b < 0) THEN a <= b ELSE b < 0

\* C31: in a session, from the step after the open to the close, no step makes
\* bytesWritten, writeFailCounter, syncFailCounter or closeFailCounter smaller.
C31_SessionCountersNeverDecrease ==
  [][fileOpen =>
       /\ UnsignedLeq(bytesWritten, bytesWritten')
       /\ UnsignedLeq(writeFailCounter, writeFailCounter')
       /\ UnsignedLeq(syncFailCounter, syncFailCounter')
       /\ UnsignedLeq(closeFailCounter, closeFailCounter')]_vars

\* The alarm time was reached after the call had set the alarm mode
MatchAfterProgramming ==
  \E i, j \in 1..Len(hwCalls) :
    i < j /\ hwCalls[i] = "setAlarmMode" /\ hwCalls[j] = "alarm match"

\* C32: when the alarm programmed by setAwakeAlarm or setSleepAlarm is reached after
\* the call has programmed it, and the interrupt handler has set alarmFlag, the flag
\* is still set when the call has returned and the main program tests it next.
C32_NoAlarmInterruptLost ==
  (pc = "returned" /\ ~intPending /\ MatchAfterProgramming) => alarmFlag

\* C33: a call of setAwakeAlarm during which no interrupt fires returns with
\* alarmFlag cleared, in every mode and on every path through the function.
C33_AwakeAlarmReturnsWithFlagCleared ==
  [][(pc = "setAwakeAlarm" /\ pc' # pc) => ~alarmFlag']_vars

\* The day after the clock's date is the start date of the seasonal window
TomorrowIsSummerStart ==
  LET tomorrow == NextSecond([Now EXCEPT !.hour = 23, !.minute = 59, !.second = 59])
  IN  tomorrow.month = alarmSummerStartMonth /\ tomorrow.day = alarmSummerStartDay

\* C34: isLastDayBeforeSummer is true exactly on the day before the start date of
\* the seasonal window, for every start date: the last day of the month before a
\* start on the first (the end of February in a leap year and the end of December
\* before a start on 1 January included), day startDay - 1 of the start month
\* otherwise.
C34_LastDayBeforeSummerIsEveOfStart ==
  isLastDayBeforeSummer(Now) <=> TomorrowIsSummerStart

\* The seasonal window is configured with its start after its end
WindowStartsAfterEnd ==
  (alarmSummerStartMonth * 100) + alarmSummerStartDay
    > (alarmSummerEndMonth * 100) + alarmSummerEndDay

\* C37: with the seasonal window configured with its start after its end, isSummer
\* is false on every date, and every call that checks the operation mode leaves
\* operationMode equal to normalOperationMode.
C37_WindowAcrossNewYearIsNeverSummer ==
  [][WindowStartsAfterEnd =>
       /\ ~isSummer(Now)
       /\ operationMode' = normalOperationMode']_vars

\* An alarm has been set on 20 December under the override with a window from
\* 15 December to 15 January, and the device is in its normal mode
C37_Witness ==
  /\ WindowStartsAfterEnd
  /\ summerMode
  /\ alarmSummerStartMonth = 12
  /\ rtc.month = 12 /\ rtc.dayOfMonth = 20
  /\ pc \in {"getLogFileName", "goToSleep"}
  /\ hwCalls # <<>>
  /\ operationMode = normalOperationMode
  /\ operationMode # CONTINUOUS

\* The minutes the clock has passed since the call that programmed the alarm, and
\* whether the alarm has fired at the latest of them
MinutesSinceCall == Len(hwCalls) - 3
AlarmFired == hwCalls[Len(hwCalls)] = "alarm match"

\* C36: in Rolling mode with a period of 0 hours and 1..59 minutes, the alarm that
\* setAwakeAlarm programs (match minutes, every hour) fires exactly alarmAwakeMinutes
\* minutes after the minute of the call and not before, whatever the time of the call
\* and also when the sum of the minutes passes 60; the alarm of setSleepAlarm fires
\* exactly alarmSleepMinutes minutes after the minute of the call.
C36_RollingMinuteAlarmFiresAfterPeriod ==
  /\ (pc = "getLogFileName" /\ MinutesSinceCall >= 1)
       => (AlarmFired <=> MinutesSinceCall = alarmAwakeMinutes)
  /\ (pc = "goToSleep" /\ MinutesSinceCall >= 1)
       => (AlarmFired <=> MinutesSinceCall = alarmSleepMinutes)
  /\ pc \in {"getLogFileName", "goToSleep"} => rtc.alarmMode = 5

\* setAwakeAlarm was called at 23:45:30 with an awake period of 30 minutes, and the
\* alarm has fired at 00:15:00 of the next day
C36_Witness ==
  /\ pc = "getLogFileName"
  /\ alarmAwakeMinutes = 30
  /\ rtc.hour = 0 /\ rtc.minute = 15 /\ rtc.seconds = 0
  /\ rtc.alarmMinute = 15
  /\ MinutesSinceCall = 30
  /\ AlarmFired
  /\ alarmFlag

\* C35: on a Daily device with the seasonal override enabled, every cycle that
\* setAwakeAlarm starts in effective mode Daily starts at
\* alarmStartHour:alarmStartMinute of the clock, the first one after the end of the
\* seasonal window included, and every log file closed in effective mode Daily is
\* closed at alarmStopHour:alarmStopMinute.
C35_DailySessionsStartAndStopOnTime ==
  [][(normalOperationMode = DAILY /\ summerMode /\ ~inSetup) =>
       /\ (pc = "setAwakeAlarm" /\ pc' # pc /\ operationMode' = DAILY)
            => (rtc.hour = alarmStartHour /\ rtc.minute = alarmStartMinute)
       /\ (fileOpen /\ ~fileOpen' /\ operationMode = DAILY)
            => (rtc.hour = alarmStopHour /\ rtc.minute = alarmStopMinute)]_vars

====
